---- MODULE Spec2Model ----
(***************************************************************************)
(* tyranno-serve: the route trie (addRoute / serve), the static fallback   *)
(* chain (addStaticPaths / servePaths), serveFile and the response         *)
(* senders.                                                                *)
(*                                                                         *)
(* A JavaScript string is modelled as the sequence of its characters, so   *)
(* that split, substring, startsWith, extname and percent-decoding are     *)
(* computed the way the code computes them.                                *)
(***************************************************************************)
EXTENDS Integers, Sequences, FiniteSets, TLC

\* ------------------------------------------------------------------------
\* Bounds of the model
\* ------------------------------------------------------------------------

\* number of addRoute calls made on one server
MaxAddRoute == 2

\* the number of addRoute calls that repeat an earlier call
MaxAgain == 1

\* the number of handlers registered that use the response senders
MaxHandlers == 1

\* number of requests received by one server
MaxRequests == 1

\* the number of requests in flight at once, where requests interleave
MaxInterleaved == 2

\* number of default callbacks remembered in the history of one request
MaxDefaulted == 3

\* number of notification connections made to one server
MaxConnections == 2

\* number of change events the watchers of one server report
MaxChanges == 2

\* the last instant of the clock
MaxTime == 3

\* number of addPaths calls made after construction
MaxAddPaths == 1

\* number of close calls made on one server
MaxClose == 1

\* ------------------------------------------------------------------------
\* Values
\* ------------------------------------------------------------------------

\* null or undefined where a trie node is expected
Null == << <<"null">> >>

\* undefined where a key is expected
NoKey == <<"undefined">>

NoCallback == [kind |-> "none"]

\* ------------------------------------------------------------------------
\* Strings
\* ------------------------------------------------------------------------

Slash == <<"/">>

RECURSIVE join(_, _)
\* Array.prototype.join
join(pieces, sep) ==
  IF pieces = <<>> THEN <<>>
  ELSE IF Len(pieces) = 1 THEN pieces[1]
  ELSE pieces[1] \o sep \o join(Tail(pieces), sep)

\* String.prototype.substring(from)
substring(str, from) == SubSeq(str, from + 1, Len(str))

\* String.prototype.startsWith("::")
startsWithDoubleColon(str) == Len(str) >= 2 /\ str[1] = ":" /\ str[2] = ":"

RECURSIVE splitFrom(_, _, _, _)
splitFrom(str, i, piece, acc) ==
  IF i > Len(str) THEN Append(acc, piece)
  ELSE IF str[i] = "/" THEN splitFrom(str, i + 1, <<>>, Append(acc, piece))
  ELSE splitFrom(str, i + 1, Append(piece, str[i]), acc)

\* String.prototype.split("/")
split(str) == splitFrom(str, 1, <<>>, <<>>)

\* pathname.replace(/[:\/]/g, '')
stripped(pathname) == SelectSeq(pathname, LAMBDA c : c # ":" /\ c # "/")

\* the characters encodeURIComponent leaves alone
Unreserved ==
  { "a", "b", "c", "d", "e", "f", "g", "h", "i", "j", "k", "l", "m", "n", "o",
    "p", "q", "r", "s", "t", "u", "v", "w", "x", "y", "z",
    "A", "B", "C", "D", "E", "F", "G", "H", "I", "J", "K", "L", "M", "N", "O",
    "P", "Q", "R", "S", "T", "U", "V", "W", "X", "Y", "Z",
    "0", "1", "2", "3", "4", "5", "6", "7", "8", "9",
    "-", "_", ".", "!", "~", "*", "'", "(", ")" }

\* encodeURIComponent(str) != str
encodeChanges(str) == \E i \in 1..Len(str) : str[i] \notin Unreserved

HexValue ==
  [c \in { "0", "1", "2", "3", "4", "5", "6", "7", "8", "9",
           "A", "B", "C", "D", "E", "F", "a", "b", "c", "d", "e", "f" } |->
     CASE c = "0" -> 0 [] c = "1" -> 1 [] c = "2" -> 2 [] c = "3" -> 3
       [] c = "4" -> 4 [] c = "5" -> 5 [] c = "6" -> 6 [] c = "7" -> 7
       [] c = "8" -> 8 [] c = "9" -> 9
       [] c \in {"A", "a"} -> 10 [] c \in {"B", "b"} -> 11
       [] c \in {"C", "c"} -> 12 [] c \in {"D", "d"} -> 13
       [] c \in {"E", "e"} -> 14 [] c \in {"F", "f"} -> 15]

\* the code points the model's inputs can produce
CharOfCode ==
  [n \in {32, 35, 37, 47, 58, 233} |->
     CASE n = 32 -> " " [] n = 35 -> "#" [] n = 37 -> "%" [] n = 47 -> "/"
       [] n = 58 -> ":" [] n = 233 -> "é"]

charOf(n) == IF n \in DOMAIN CharOfCode THEN CharOfCode[n] ELSE "?"

\* the byte of the escape %XX at position i of str, or -1 when there is none
escapeAt(str, i) ==
  IF i + 2 <= Len(str) /\ str[i] = "%"
     /\ str[i + 1] \in DOMAIN HexValue /\ str[i + 2] \in DOMAIN HexValue
  THEN 16 * HexValue[str[i + 1]] + HexValue[str[i + 2]]
  ELSE -1

RECURSIVE decodeFrom(_, _, _)
decodeFrom(str, i, acc) ==
  IF i > Len(str) THEN [threw |-> FALSE, value |-> acc]
  ELSE IF str[i] # "%" THEN decodeFrom(str, i + 1, Append(acc, str[i]))
  ELSE LET b1 == escapeAt(str, i)
           b2 == escapeAt(str, i + 3)
       IN IF b1 < 0 THEN [threw |-> TRUE, value |-> <<>>]
          ELSE IF b1 < 128 THEN decodeFrom(str, i + 3, Append(acc, charOf(b1)))
          ELSE IF b1 >= 194 /\ b1 <= 223 /\ b2 >= 128 /\ b2 <= 191
               THEN decodeFrom(str, i + 6,
                               Append(acc, charOf((b1 - 192) * 64 + (b2 - 128))))
          ELSE [threw |-> TRUE, value |-> <<>>]

\* decodeURIComponent: the decoded string, or threw (URIError) on a malformed
\* escape; one- and two-byte UTF-8 sequences
decodeURIComponent(str) == decodeFrom(str, 1, <<>>)

\* ------------------------------------------------------------------------
\* tyranno-serve.js: utility methods
\* ------------------------------------------------------------------------

GET == <<"G", "E", "T">>

POST == <<"P", "O", "S", "T">>

PUT == <<"P", "U", "T">>

DELETE == <<"D", "E", "L", "E", "T", "E">>

PATCH == <<"P", "A", "T", "C", "H">>

METHODS == { GET, POST, PUT, DELETE, PATCH }

BODY_METHODS == { POST, PUT }

isRouteVariable(str) == Len(str) > 0 /\ str[1] = ":"

\* normalizePath without its second test: only the leading slash is stripped
normalizePathLeadingOnly(pathname) ==
  IF Len(pathname) > 0 /\ pathname[1] = "/" THEN substring(pathname, 1) ELSE pathname

normalizePath(pathname) ==
  LET p1 == IF Len(pathname) > 0 /\ pathname[1] = "/"
            THEN substring(pathname, 1) ELSE pathname
  IN IF Len(p1) > 0 /\ p1[Len(p1)] = "/"
     THEN SubSeq(p1, 1, Len(p1) - 1) ELSE p1

\* the method is prepended as the first trie key
getPieces(pathname, method) == <<method>> \o split(pathname)

\* ------------------------------------------------------------------------
\* tyranno-serve.js: the route trie
\*
\* this._routes is a tree of plain objects.  A node is named by the sequence
\* of keys that leads to it from this._routes (<<>> is this._routes itself);
\* keys is the node's own keys in the order Object.keys returns them
\* (insertion order), '^callback' left out; callback is its '^callback'.
\* ------------------------------------------------------------------------

EmptyNode == [keys |-> <<>>, callback |-> NoCallback]

EmptyRoutes == [p \in { <<>> } |-> EmptyNode]

\* _.has(current, piece)
has(rts, current, piece) ==
  \E i \in 1..Len(rts[current].keys) : rts[current].keys[i] = piece

\* the test `current != null && !_.isEmpty(current)` in place of
\* _.has(current, '^callback'): a node with children passes for a match
hasCallbackOrChildren(rts, current) ==
  current # Null
  /\ (rts[current].callback # NoCallback \/ rts[current].keys # <<>>)

\* _.has(current, '^callback')
hasCallback(rts, current) ==
  current # Null /\ rts[current].callback # NoCallback

\* _.omit(current, piece, '^callback'): the remaining keys, each with its
\* value, which is the child node object
otherPieces(rts, current, piece) ==
  LET ks == SelectSeq(rts[current].keys, LAMBDA k : k # piece)
  IN [i \in 1..Len(ks) |->
        [key |-> ks[i], value |-> [type |-> "object", node |-> Append(current, ks[i])]]]

\* isRouteVariable applied to a value that may not be a string: an object
\* has no length, and undefined > 0 is false
isRouteVariableOf(value) ==
  IF value.type = "string" THEN isRouteVariable(value.str) ELSE FALSE

\* _.filter(otherPieces, isRouteVariable): lodash hands the predicate each
\* VALUE of the object, and returns the values that pass
variablePieces(rts, current, piece) ==
  SelectSeq([i \in 1..Len(otherPieces(rts, current, piece)) |->
               otherPieces(rts, current, piece)[i].value],
            isRouteVariableOf)

\* the test that throws "A route cannot have more than one variable at any
\* one location."
variableConflict(rts, current, piece) ==
  LET vps == variablePieces(rts, current, piece)
      variableLength == Len(vps)
  IN isRouteVariable(piece)
     /\ (variableLength > 1
         \/ (variableLength = 1 /\ vps[1] # [type |-> "string", str |-> piece]))

\* if (current[piece] == null) current[piece] = {}
createPiece(rts, current, piece) ==
  IF has(rts, current, piece) THEN rts
  ELSE [p \in DOMAIN rts \cup { Append(current, piece) } |->
          IF p = Append(current, piece) THEN EmptyNode
          ELSE IF p = current
               THEN [rts[p] EXCEPT !.keys = Append(@, piece)]
               ELSE rts[p]]

\* the test before a piece is ignored: a piece after '::name' is registered
doubleColonIgnored(hasDoubleColon) == FALSE

\* if (hasDoubleColon): a piece before this one started with '::'
doubleColonBefore(hasDoubleColon) == hasDoubleColon

RECURSIVE addRouteWalk(_, _, _, _, _)
\* pieces.forEach of addRoute: a throw leaves the nodes created by the
\* earlier iterations in place
addRouteWalk(rts, pieces, i, current, hasDoubleColon) ==
  IF i > Len(pieces) THEN [threw |-> "none", routes |-> rts, current |-> current]
  ELSE IF doubleColonBefore(hasDoubleColon)
       THEN [threw |-> "Double colon variables must be final.",
             routes |-> rts, current |-> current]
  ELSE IF variableConflict(rts, current, pieces[i])
       THEN [threw |-> "A route cannot have more than one variable at any one location.",
             routes |-> rts, current |-> current]
  ELSE addRouteWalk(createPiece(rts, current, pieces[i]), pieces, i + 1,
                    Append(current, pieces[i]),
                    startsWithDoubleColon(pieces[i]))

\* addRoute without the test of the method
addRouteAnyMethod(rts, method, pathname, callback) ==
  IF encodeChanges(stripped(normalizePath(pathname)))
  THEN [threw |-> "The pathname contains illegal characters", routes |-> rts]
  ELSE LET walk == addRouteWalk(rts, getPieces(normalizePath(pathname), method),
                                1, <<>>, FALSE)
       IN IF walk.threw # "none"
          THEN [threw |-> walk.threw, routes |-> walk.routes]
          ELSE [threw |-> "none",
                routes |-> [walk.routes EXCEPT ![walk.current].callback = callback]]

\* addRoute that keeps the '^callback' a node already has
addRouteKeepingFirst(rts, method, pathname, callback) ==
  IF method \notin METHODS
  THEN [threw |-> "Method must be a string and one of these values", routes |-> rts]
  ELSE IF encodeChanges(stripped(normalizePath(pathname)))
       THEN [threw |-> "The pathname contains illegal characters", routes |-> rts]
  ELSE LET walk == addRouteWalk(rts, getPieces(normalizePath(pathname), method),
                                1, <<>>, FALSE)
       IN IF walk.threw # "none"
          THEN [threw |-> walk.threw, routes |-> walk.routes]
          ELSE [threw |-> "none",
                routes |-> [walk.routes EXCEPT ![walk.current].callback =
                              IF @ = NoCallback THEN callback ELSE @]]

\* TyrannoServe.addRoute: the trie after the call and the error thrown
addRoute(rts, method, pathname, callback) ==
  IF method \notin METHODS
  THEN [threw |-> "Method must be a string and one of these values", routes |-> rts]
  ELSE IF encodeChanges(stripped(normalizePath(pathname)))
       THEN [threw |-> "The pathname contains illegal characters", routes |-> rts]
  ELSE LET walk == addRouteWalk(rts, getPieces(normalizePath(pathname), method),
                                1, <<>>, FALSE)
       IN IF walk.threw # "none"
          THEN [threw |-> walk.threw, routes |-> walk.routes]
          ELSE [threw |-> "none",
                routes |-> [walk.routes EXCEPT ![walk.current].callback = callback]]

\* _.find(_.keys(current), isRouteVariable): the first key that passes
findVariable(rts, current) ==
  IF current = Null THEN NoKey
  ELSE LET ks == SelectSeq(rts[current].keys, isRouteVariable)
       IN IF ks = <<>> THEN NoKey ELSE ks[1]

\* _.find(_.keys(current), (s) => s.startsWith('::')): the first key that
\* passes
findDoubleColon(rts, current) ==
  IF current = Null THEN NoKey
  ELSE LET ks == SelectSeq(rts[current].keys, startsWithDoubleColon)
       IN IF ks = <<>> THEN NoKey ELSE ks[1]

\* routeParams[name] = value
setParam(routeParams, name, value) ==
  [n \in DOMAIN routeParams \cup { name } |->
     IF n = name THEN value ELSE routeParams[n]]

RECURSIVE serveWalk(_, _, _, _, _, _)
\* pieces.forEach of serve
serveWalk(rts, pieces, i, current, routeParams, doubleColonPieces) ==
  IF i > Len(pieces)
  THEN [threw |-> FALSE, current |-> current, routeParams |-> routeParams,
        doubleColonPieces |-> doubleColonPieces]
  ELSE IF current = Null
       THEN serveWalk(rts, pieces, i + 1, current, routeParams, doubleColonPieces)
  ELSE IF has(rts, current, pieces[i])
       THEN serveWalk(rts, pieces, i + 1, Append(current, pieces[i]),
                      routeParams, doubleColonPieces)
  ELSE LET variable == findVariable(rts, current)
       IN IF variable = NoKey
          THEN serveWalk(rts, pieces, i + 1, Null, routeParams, doubleColonPieces)
          ELSE IF Len(variable) > 1 /\ variable[2] = ":"
               THEN serveWalk(rts, pieces, i + 1, current, routeParams,
                              Append(doubleColonPieces, pieces[i]))
          ELSE LET decoded == decodeURIComponent(pieces[i])
               IN IF decoded.threw
                  THEN [threw |-> TRUE, current |-> current,
                        routeParams |-> routeParams,
                        doubleColonPieces |-> doubleColonPieces]
                  ELSE serveWalk(rts, pieces, i + 1, Append(current, variable),
                                 setParam(routeParams, substring(variable, 1),
                                          decoded.value),
                                 doubleColonPieces)

\* the routing of serve: the node whose '^callback' is looked up, and the
\* route parameters; threw when decodeURIComponent throws
route(rts, method, pathname) ==
  LET walk == serveWalk(rts, getPieces(normalizePath(pathname), method), 1,
                        <<>>, << >>, <<>>)
      doubleColon == findDoubleColon(rts, walk.current)
      decoded == decodeURIComponent(join(walk.doubleColonPieces, Slash))
  IN IF walk.threw THEN [threw |-> TRUE, current |-> Null, routeParams |-> << >>]
     ELSE IF doubleColon = NoKey
          THEN [threw |-> FALSE, current |-> walk.current,
                routeParams |-> walk.routeParams]
     ELSE IF decoded.threw
          THEN [threw |-> TRUE, current |-> Null, routeParams |-> << >>]
     ELSE [threw |-> FALSE, current |-> Append(walk.current, doubleColon),
           routeParams |-> setParam(walk.routeParams, substring(doubleColon, 2),
                                    decoded.value)]

\* ------------------------------------------------------------------------
\* add-static-paths.js and serve-file.js: module constants and the library
\* calls they make
\* ------------------------------------------------------------------------

Dot == <<".">>

\* String.prototype.toLocaleLowerCase, on the letters the model uses.  (The
\* string operators below bind their argument once, as a call does.)
lowerChar(c) ==
  CASE c = "B" -> "b" [] c = "O" -> "o" [] c = "D" -> "d" [] c = "Y" -> "y"
    [] c = "H" -> "h" [] c = "T" -> "t" [] c = "M" -> "m" [] c = "L" -> "l"
    [] OTHER -> c

\* a comparison of extensions that is case sensitive
caseSensitive(str) == str

toLocaleLowerCase(str) ==
  LET lower[s \in { str }] == [i \in 1..Len(s) |-> lowerChar(s[i])]
  IN lower[str]

\* path.join(a, b): an empty b adds nothing
pathJoin(a, b) == IF b = <<>> THEN a ELSE a \o Slash \o b

\* the last index of character c in str, 0 when there is none
lastIndexOf(str, c) ==
  LET last[s \in { str }] ==
        CHOOSE i \in 0..Len(s) :
          (i = 0 \/ s[i] = c) /\ \A j \in (i + 1)..Len(s) : s[j] # c
  IN last[str]

\* path.extname: from the last dot of the base name, nothing when the base
\* name has no dot or only starts with one
extname(filePath) ==
  LET basename[p \in { filePath }] == substring(p, lastIndexOf(p, "/"))
      ext[base \in { basename[filePath] }] ==
        LET dot == lastIndexOf(base, ".")
        IN IF dot <= 1 THEN <<>> ELSE SubSeq(base, dot, Len(base))
  IN ext[basename[filePath]]

INJECTABLE_EXTENSIONS ==
  { <<>>, <<".", "h", "t", "m", "l">>, <<".", "h", "t", "m">>,
    <<".", "x", "h", "t", "m", "l">>, <<".", "p", "h", "p">> }

INJECTED_CODE == <<"<script>reload</script>">>

BODY_END == <<"<", "/", "b", "o", "d", "y", ">">>

\* the first index at which BODY_END_REGEX (case-insensitive) matches, or 0
bodyEndIndex(html) ==
  LET found == { i \in 1..Len(html) :
                   /\ i + Len(BODY_END) - 1 <= Len(html)
                   /\ toLocaleLowerCase(SubSeq(html, i, i + Len(BODY_END) - 1))
                        = BODY_END }
  IN IF found = {} THEN 0 ELSE CHOOSE i \in found : \A j \in found : i <= j

\* html.replace(BODY_END_REGEX, INJECTED_CODE + "</body>")
injectCode(html) ==
  LET i == bodyEndIndex(html)
  IN IF i = 0 THEN html
     ELSE SubSeq(html, 1, i - 1) \o INJECTED_CODE \o BODY_END
          \o SubSeq(html, i + Len(BODY_END), Len(html))

\* mime.lookup, on the extensions the model uses
mimeLookup(filePath) ==
  LET ext == toLocaleLowerCase(extname(filePath))
  IN CASE ext \in { <<".", "h", "t", "m", "l">>, <<".", "h", "t", "m">> } -> "text/html"
       [] ext = <<".", "t", "x", "t">> -> "text/plain"
       [] OTHER -> "application/octet-stream"

\* let code = err.code = 'ENOENT' ? 404 : 500: the condition is the value of
\* the assignment, the non-empty string 'ENOENT'
fileErrorCode(errCode) ==
  LET assigned == "ENOENT"
  IN IF assigned # "" THEN 404 ELSE 500

\* ------------------------------------------------------------------------
\* The state of one server process
\* ------------------------------------------------------------------------

VARIABLES
  routes,        \* this._routes
  calls,         \* history: the addRoute calls made, in order, with their outcome
  shouldListen,  \* this.shouldListen
  defaults,      \* the default callbacks of this._responseAugmenter
  fs,            \* the file system: what is found at each path
  listening,     \* listen() was called: this._server exists
  crashed,       \* an exception escaped a callback of the event loop
  req,           \* the requests received, each with the position of its handling
  wait,          \* this._fileWatcher.wait
  now,           \* the clock of the timers, in the unit of wait
  clients,       \* this._fileWatcher._clients
  ws,            \* the WebSocket of each notification connection
  watchers,      \* the watchers watchr.watch returned, in order of creation
  emitter,       \* this._emitter: the 'close' listeners, each with its watchers
  pathsCalls,    \* history: the addPaths calls made after construction
  closeCalls,    \* history: the close calls made
  changes        \* history: the change events of the watchers

fileWatcherVars ==
  <<wait, now, clients, ws, watchers, emitter, pathsCalls, closeCalls, changes>>

vars ==
  <<routes, calls, shouldListen, defaults, fs, listening, crashed, req,
    wait, now, clients, ws, watchers, emitter, pathsCalls, closeCalls, changes>>

Requests == 1..(IF MaxInterleaved > MaxRequests THEN MaxInterleaved ELSE MaxRequests)

\* a callback registered by user code; it answers response.ok().data(...)
restCallback(id) == [kind |-> "rest", id |-> id]

\* the servePaths closure of one addStaticPaths call
servePathsCallback(urlPath, staticPaths) ==
  [kind |-> "servePaths", urlPath |-> urlPath, staticPaths |-> staticPaths]

BuiltinDefault == [kind |-> "builtin"]

\* callback = (response) => response[key]().file(input)
fileDefault(input) == [kind |-> "file", input |-> input]

\* new ResponseAugmenter(server)
builtinDefaults ==
  [notFound |-> BuiltinDefault, badRequest |-> BuiltinDefault,
   internalServerError |-> BuiltinDefault]

\* the status code handlers pass to response.fromStatus
TEAPOT == 418

statusOf(key) ==
  CASE key = "ok" -> 200 [] key = "notFound" -> 404 [] key = "badRequest" -> 400
    [] key = "internalServerError" -> 500 [] key = "fromStatus" -> TEAPOT

\* a callback registered by user code that calls response[key]().doDefault()
defaultCallback(key) == [kind |-> "doDefault", key |-> key]

\* a callback registered by user code that calls
\* response[key]().file(filePath, nextCallback), or without a nextCallback
fileCallback(key, filePath, nextCallback) ==
  [kind |-> "sendFile", key |-> key, filePath |-> filePath,
   nextCallback |-> nextCallback]

\* request.body before the callback of getBodyData has set it
NoBody == <<"undefined">>

\* a request that has not arrived yet.  invoked, defaulted, log, sent and
\* nCalls are history: the route callbacks and the default callbacks invoked,
\* the file system calls made for the candidates, the responses written, and
\* the number of addRoute calls made before the request arrived; arrived is
\* the history of the 'data' events, requestBody is request.body;
\* nextFallback is whether serveFile was given one, nexts is the history of
\* its invocations
IdleRequest ==
  [pc |-> "idle", method |-> <<>>, pathname |-> <<>>, routeParams |-> << >>,
   current |-> Null, chunks |-> <<>>, body |-> <<>>, invoked |-> <<>>,
   defaulted |-> <<>>, frame |-> "none", staticPaths |-> <<>>, index |-> 0,
   filePath |-> <<>>, statusCode |-> 0, injectHtml |-> FALSE, log |-> <<>>,
   sent |-> <<>>, nCalls |-> 0, arrived |-> <<>>, requestBody |-> NoBody,
   nextFallback |-> FALSE, nexts |-> 0]

\* ------------------------------------------------------------------------
\* The file system
\* ------------------------------------------------------------------------

\* what a path holds: a regular file, a directory, nothing, a file below a
\* directory that cannot be searched (every call fails with EACCES), or a
\* file that can be seen but not opened (lstat succeeds, reading fails with
\* EACCES)
FileKinds == { "file", "directory", "absent", "noaccess", "unreadable" }

kindOf(filePath) == IF filePath \in DOMAIN fs THEN fs[filePath] ELSE "absent"

\* fs.lstat: the error code, or the stats
lstat(filePath) ==
  CASE kindOf(filePath) = "absent" -> [err |-> "ENOENT", isDirectory |-> FALSE]
    [] kindOf(filePath) = "noaccess" -> [err |-> "EACCES", isDirectory |-> FALSE]
    [] kindOf(filePath) = "directory" -> [err |-> "none", isDirectory |-> TRUE]
    [] OTHER -> [err |-> "none", isDirectory |-> FALSE]

\* the bytes of each regular file of the model
fileContent(filePath) ==
  CASE extname(filePath) = <<".", "h", "t", "m", "l">> ->
         <<"<", "p", ">">> \o <<"<", "/", "B", "o", "d", "y", ">">> \o <<"<", "!", ">">>
    [] extname(filePath) = <<".", "H", "T", "M">> ->
         <<"<", "p", ">">> \o <<"<", "/", "B", "O", "D", "Y", ">">> \o <<"<", "!", ">">>
           \o <<"<", "/", "b", "o", "d", "y", ">">>
    [] extname(filePath) = <<".", "c", "s", "s">> ->
         <<"p", "{", "}">> \o <<"<", "/", "b", "o", "d", "y", ">">>
    [] OTHER -> <<"text from ">> \o filePath

\* fs.readFile(filePath, 'utf8'): the error code, or the content
readFile(filePath) ==
  CASE kindOf(filePath) = "file" -> [err |-> "none", html |-> fileContent(filePath)]
    [] kindOf(filePath) = "absent" -> [err |-> "ENOENT", html |-> <<>>]
    [] kindOf(filePath) = "directory" -> [err |-> "EISDIR", html |-> <<>>]
    [] OTHER -> [err |-> "EACCES", html |-> <<>>]

\* send(request, filePath): the event the stream emits.  A missing file is
\* an error of status 404, a directory is the 'directory' event, any other
\* failure is an error of status 500.
send(filePath) ==
  CASE kindOf(filePath) = "file" -> [event |-> "pipe", status |-> 200]
    [] kindOf(filePath) = "absent" -> [event |-> "error", status |-> 404]
    [] kindOf(filePath) = "directory" -> [event |-> "directory", status |-> 301]
    [] OTHER -> [event |-> "error", status |-> 500]

\* ------------------------------------------------------------------------
\* Response senders (tyranno-serve.js, ResponseAugmenter and ResponseSender)
\* and the static handlers.  Each operator maps the record of a request to
\* its record after the call.
\* ------------------------------------------------------------------------

FILE_PATH == <<"f", "i", "l", "e", "P", "a", "t", "h">>

INDEX_HTML == <<"i", "n", "d", "e", "x", ".", "h", "t", "m", "l">>

\* an exception leaves the running callback
throw(q) == [q EXCEPT !.pc = "threw"]

\* writeHead, write and end on the response; candidate remembers the index
\* of the static path the response was written for
respond(q, statusCode, mimeType, value) ==
  [q EXCEPT !.pc = "done",
            !.sent = Append(@, [status |-> statusCode, mimeType |-> mimeType,
                                body |-> value,
                                candidate |-> IF q.frame = "servePath"
                                              THEN q.index ELSE -1])]

\* ResponseSender.content
content(q, statusCode, value, mimeType) == respond(q, statusCode, mimeType, value)

\* ResponseSender.data
data(q, statusCode, value) == respond(q, statusCode, "application/json", value)

\* response.redirect
redirect(q, redirectUrl) == respond(q, 301, "none", redirectUrl)

\* serveFile up to its fs.lstat call
serveFile(q, filePath, statusCode, nextFallback) ==
  [q EXCEPT !.pc = "lstat", !.frame = "serveFile", !.filePath = filePath,
            !.statusCode = statusCode, !.nextFallback = nextFallback]

\* ResponseSender.file
file(q, statusCode, filePath, nextCallback) ==
  serveFile(q, filePath, statusCode, nextCallback)

\* the nextCallback user code gave to file: it writes no response itself
nextFallback(q) == [q EXCEPT !.pc = "next", !.nexts = @ + 1]

\* the default callbacks set by the constructor of ResponseAugmenter
builtinDefault(q, key) ==
  CASE key = "notFound" -> content(q, 404, <<"Not found.">>, "text/plain")
    [] key = "badRequest" -> throw(q)   \* response.baRequest is not a function
    [] key = "internalServerError" ->
         content(q, 500, <<"Internal server error.">>, "text/plain")

\* doDefault that does nothing when the sender has no default callback
doDefaultSilent(q, key) ==
  LET q1 == [q EXCEPT !.defaulted =
                        IF Len(@) < MaxDefaulted THEN Append(@, key) ELSE @]
  IN IF key \notin DOMAIN defaults THEN [q EXCEPT !.pc = "done"]
     ELSE IF defaults[key].kind = "file"
          THEN file(q1, statusOf(key), defaults[key].input, FALSE)
          ELSE builtinDefault(q1, key)

\* response[key]().doDefault(); the default callback of a file calls
\* response[key]().file(input)
doDefault(q, key) ==
  LET q1 == [q EXCEPT !.defaulted =
                        IF Len(@) < MaxDefaulted THEN Append(@, key) ELSE @]
  IN IF key \notin DOMAIN defaults THEN throw(q)
     ELSE IF defaults[key].kind = "file"
          THEN file(q1, statusOf(key), defaults[key].input, FALSE)
          ELSE builtinDefault(q1, key)

\* servePath of servePaths, up to its fs.lstat call
servePath(q) ==
  IF q.index >= Len(q.staticPaths) THEN doDefault(q, "notFound")
  ELSE IF FILE_PATH \notin DOMAIN q.routeParams
       THEN throw(q)   \* path.join(staticPath, undefined)
       ELSE [q EXCEPT !.pc = "lstat",
                      !.filePath = pathJoin(q.staticPaths[q.index + 1],
                                            q.routeParams[FILE_PATH])]

\* servePaths(request, response)
servePaths(q, staticPaths) ==
  servePath([q EXCEPT !.frame = "servePath", !.staticPaths = staticPaths,
                      !.index = 0])

\* errorResponse that never looks at nextFallback
errorResponseDefaultOnly(q, what, code) ==
  IF q.frame = "servePath"
  THEN IF code = 404 THEN servePath([q EXCEPT !.index = @ + 1])
       ELSE doDefault(q, "internalServerError")
  ELSE IF code = 404 THEN doDefault(q, "notFound")
       ELSE doDefault(q, "internalServerError")

\* errorResponse, of servePath and of serveFile
errorResponse(q, what, code) ==
  IF q.frame = "servePath"
  THEN IF code = 404 THEN servePath([q EXCEPT !.index = @ + 1])
       ELSE doDefault(q, "internalServerError")
  ELSE IF code = 404
       THEN IF q.nextFallback THEN nextFallback(q) ELSE doDefault(q, "notFound")
       ELSE doDefault(q, "internalServerError")

\* fileErrorResponse, of servePath and of serveFile
fileErrorResponse(q, errCode) == errorResponse(q, "lstat", fileErrorCode(errCode))

\* the history of the file system calls made for the candidates of servePaths
logged(q, op, result) ==
  IF q.frame = "servePath"
  THEN [q EXCEPT !.log = Append(@, [op |-> op, index |-> q.index,
                                    filePath |-> q.filePath, result |-> result])]
  ELSE q

\* the callback of fs.lstat with the test of servePath in serveFile too: a
\* file that is not injected is streamed
lstatCallbackStreaming(q) ==
  LET stats == lstat(q.filePath)
      filePath == IF stats.isDirectory THEN pathJoin(q.filePath, INDEX_HTML)
                  ELSE q.filePath
      extension == toLocaleLowerCase(extname(filePath))
      injectHtml == extension \in INJECTABLE_EXTENSIONS /\ shouldListen
  IN IF stats.err # "none"
     THEN fileErrorResponse(logged(q, "lstat", stats.err), stats.err)
     ELSE [logged(q, "lstat", stats.err) EXCEPT
             !.filePath = filePath, !.injectHtml = injectHtml,
             !.pc = IF injectHtml THEN "readFile" ELSE "send"]

\* the callback of fs.lstat, in servePath and in serveFile, of a server
\* whose shouldListen is listen
lstatCallbackIn(q, listen) ==
  LET stats == lstat(q.filePath)
      filePath == IF stats.isDirectory THEN pathJoin(q.filePath, INDEX_HTML)
                  ELSE q.filePath
      extension == toLocaleLowerCase(extname(filePath))
      injectHtml == extension \in INJECTABLE_EXTENSIONS /\ listen
      buffered == IF q.frame = "servePath" THEN injectHtml
                  ELSE injectHtml \/ q.statusCode # 200
  IN IF stats.err # "none"
     THEN fileErrorResponse(logged(q, "lstat", stats.err), stats.err)
     ELSE [logged(q, "lstat", stats.err) EXCEPT
             !.filePath = filePath, !.injectHtml = injectHtml,
             !.pc = IF buffered THEN "readFile" ELSE "send"]

\* the callback of fs.lstat, which reads server.shouldListen
lstatCallback(q) == lstatCallbackIn(q, shouldListen)

\* the callback of fs.readFile, in servePath and in serveFile
readFileCallback(q) ==
  LET read == readFile(q.filePath)
      html == IF q.frame = "servePath" \/ q.injectHtml
              THEN injectCode(read.html) ELSE read.html
  IN IF read.err # "none"
     THEN fileErrorResponse(logged(q, "readFile", read.err), read.err)
     ELSE content(logged(q, "readFile", read.err),
                  IF q.frame = "servePath" THEN 200 ELSE q.statusCode,
                  html, mimeLookup(q.filePath))

\* the events of send(request, filePath).pipe(response)
sendEvent(q) ==
  LET stream == send(q.filePath)
  IN CASE stream.event = "pipe" ->
            respond(logged(q, "send", "none"), 200, mimeLookup(q.filePath),
                    fileContent(q.filePath))
       [] stream.event = "directory" ->
            redirect(logged(q, "send", "directory"), q.pathname)
       [] stream.event = "error" ->
            errorResponse(logged(q, "send", IF stream.status = 404 THEN "404" ELSE "500"),
                          "streaming file", stream.status)

\* current['^callback'].call(null, request, response)
invoke(q, callback) ==
  LET q1 == [q EXCEPT !.invoked = Append(@, callback)]
  IN CASE callback.kind = "servePaths" -> servePaths(q1, callback.staticPaths)
       [] callback.kind = "doDefault" -> doDefault(q1, callback.key)
       [] callback.kind = "sendFile" ->
            file(q1, statusOf(callback.key), callback.filePath, callback.nextCallback)
       [] OTHER -> data(q1, 200, <<"data">>)

\* the 'data' listener of getBodyData with the chunks in the other order
onDataPrepending(q, chunk) == [q EXCEPT !.body = chunk \o @]

\* the 'data' listener of getBodyData: body += data
onData(q, chunk) == [q EXCEPT !.body = @ \o chunk]

\* JSON.parse of a text given as its tokens: an object of at most one
\* member; anything else throws
JSONparse(text) ==
  IF text = <<"{", "}">> THEN [threw |-> FALSE, value |-> << >>]
  ELSE IF Len(text) = 5 /\ text[1] = "{" /\ text[3] = ":" /\ text[5] = "}"
          /\ text[2] \notin { "{", "}", ":" } /\ text[4] \notin { "{", "}", ":" }
       THEN [threw |-> FALSE, value |-> [k \in { text[2] } |-> text[4]]]
       ELSE [threw |-> TRUE, value |-> << >>]

\* TyrannoServe.serve, up to the first callback it waits for
serve(method, pathname, chunks) ==
  LET rt == route(routes, method, pathname)
      q == [IdleRequest EXCEPT !.method = method, !.pathname = pathname,
                               !.chunks = chunks, !.nCalls = Len(calls),
                               !.routeParams = rt.routeParams,
                               !.current = rt.current]
  IN IF rt.threw THEN throw(q)
     ELSE IF hasCallback(routes, rt.current)
          THEN IF method \in BODY_METHODS THEN [q EXCEPT !.pc = "body"]
               ELSE invoke(q, routes[rt.current].callback)
          ELSE doDefault(q, "notFound")

\* ------------------------------------------------------------------------
\* Actions
\* ------------------------------------------------------------------------

\* the request record q replaces that of request r; an exception that
\* escaped the callback ends the process
Becomes(r, q) ==
  /\ req' = [req EXCEPT ![r] = q]
  /\ crashed' = (q.pc = "threw")

\* user code calls addRoute(method, pathname, callback)
AddRoute(method, pathname) ==
  /\ ~crashed
  /\ Len(calls) < MaxAddRoute
  /\ LET callback == restCallback(Len(calls) + 1)
         result == addRoute(routes, method, pathname, callback)
     IN /\ routes' = result.routes
        /\ calls' = Append(calls, [method |-> method, pathname |-> pathname,
                                   callback |-> callback, threw |-> result.threw])
  /\ UNCHANGED <<shouldListen, defaults, fs, listening, crashed, req>>
  /\ UNCHANGED fileWatcherVars

\* user code calls addRoute again with the method and the pathname of its
\* call i, and a new callback
AddRouteAgain(i) ==
  /\ ~crashed
  /\ i \in 1..Len(calls)
  /\ Len(calls) < MaxAddRoute + MaxAgain
  /\ LET callback == restCallback(Len(calls) + 1)
         result == addRoute(routes, calls[i].method, calls[i].pathname, callback)
     IN /\ routes' = result.routes
        /\ calls' = Append(calls, [method |-> calls[i].method,
                                   pathname |-> calls[i].pathname,
                                   callback |-> callback, threw |-> result.threw])
  /\ UNCHANGED <<shouldListen, defaults, fs, listening, crashed, req>>
  /\ UNCHANGED fileWatcherVars

\* user code calls addRoute('GET', pathname, callback) with a callback that
\* uses the response senders
AddHandler(pathname, callback) ==
  /\ ~crashed
  /\ Len(calls) < MaxHandlers
  /\ LET result == addRoute(routes, GET, pathname, callback)
     IN /\ routes' = result.routes
        /\ calls' = Append(calls, [method |-> GET, pathname |-> pathname,
                                   callback |-> callback, threw |-> result.threw])
  /\ UNCHANGED <<shouldListen, defaults, fs, listening, crashed, req>>
  /\ UNCHANGED fileWatcherVars

\* user code calls notFoundDefault(input) with the name of a file:
\* _setDefault; fs.lstatSync throws when the file does not exist
NotFoundDefault(input) ==
  /\ ~crashed
  /\ lstat(input).err = "none"
  /\ defaults.notFound # fileDefault(input)
  /\ defaults' = [defaults EXCEPT !.notFound = fileDefault(input)]
  /\ UNCHANGED <<routes, calls, shouldListen, fs, listening, crashed, req>>
  /\ UNCHANGED fileWatcherVars

\* TyrannoServe.listen
Listen ==
  /\ ~crashed
  /\ ~listening
  /\ listening' = TRUE
  /\ clients' = <<>>   \* this._fileWatcher.listenOn(this._server)
  /\ UNCHANGED <<routes, calls, shouldListen, defaults, fs, crashed, req>>
  /\ UNCHANGED <<wait, now, ws, watchers, emitter, pathsCalls, closeCalls, changes>>

\* the http server hands request r to serve
Serve(r, method, pathname, chunks) ==
  /\ ~crashed
  /\ listening
  /\ r <= MaxRequests
  /\ req[r].pc = "idle"
  /\ \A r0 \in Requests : r0 < r => req[r0].pc # "idle"
  /\ Becomes(r, serve(method, pathname, chunks))
  /\ UNCHANGED <<routes, calls, shouldListen, defaults, fs, listening>>
  /\ UNCHANGED fileWatcherVars

\* the 'request' event of the http server while other requests may still
\* wait for their file system callbacks
ServeInterleaved(r, method, pathname, chunks) ==
  /\ ~crashed
  /\ listening
  /\ r <= MaxInterleaved
  /\ req[r].pc = "idle"
  /\ \A r0 \in Requests : r0 < r => req[r0].pc # "idle"
  /\ Becomes(r, serve(method, pathname, chunks))
  /\ UNCHANGED <<routes, calls, shouldListen, defaults, fs, listening>>
  /\ UNCHANGED fileWatcherVars

\* getBodyData: a 'data' event of request r
BodyData(r) ==
  /\ ~crashed
  /\ req[r].pc = "body"
  /\ req[r].chunks # <<>>
  /\ Becomes(r, [onData(req[r], Head(req[r].chunks)) EXCEPT
                   !.arrived = Append(@, Head(req[r].chunks)),
                   !.chunks = Tail(@)])
  /\ UNCHANGED <<routes, calls, shouldListen, defaults, fs, listening>>
  /\ UNCHANGED fileWatcherVars

\* getBodyData: the 'end' event of request r, and the callback serve gave
BodyEnd(r) ==
  /\ ~crashed
  /\ req[r].pc = "body"
  /\ req[r].chunks = <<>>
  /\ LET parsed == JSONparse(req[r].body)
     IN Becomes(r, IF parsed.threw THEN throw(req[r])
                   ELSE invoke([req[r] EXCEPT !.requestBody = parsed.value],
                               routes[req[r].current].callback))
  /\ UNCHANGED <<routes, calls, shouldListen, defaults, fs, listening>>
  /\ UNCHANGED fileWatcherVars

\* fs.lstat completes for request r
LstatCallback(r) ==
  /\ ~crashed
  /\ req[r].pc = "lstat"
  /\ Becomes(r, lstatCallback(req[r]))
  /\ UNCHANGED <<routes, calls, shouldListen, defaults, fs, listening>>
  /\ UNCHANGED fileWatcherVars

\* fs.readFile completes for request r
ReadFileCallback(r) ==
  /\ ~crashed
  /\ req[r].pc = "readFile"
  /\ Becomes(r, readFileCallback(req[r]))
  /\ UNCHANGED <<routes, calls, shouldListen, defaults, fs, listening>>
  /\ UNCHANGED fileWatcherVars

\* the send stream of request r emits its event
SendEvent(r) ==
  /\ ~crashed
  /\ req[r].pc = "send"
  /\ Becomes(r, sendEvent(req[r]))
  /\ UNCHANGED <<routes, calls, shouldListen, defaults, fs, listening>>
  /\ UNCHANGED fileWatcherVars

\* ------------------------------------------------------------------------
\* The inputs: the strings user code, the settings and the clients supply
\* ------------------------------------------------------------------------

TRACE == <<"T", "R", "A", "C", "E">>

path_a == <<"a">>

path_a_slashes == <<"/", "a", "/">>

path_slash_a == <<"/", "a">>

path_slashes_a == <<"/", "/", "a">>

path_a_x == <<"/", "a", "/", ":", ":", "x">>

path_x == <<":", ":", "x">>

path_u == <<":", "u">>

path_v == <<":", "v">>

path_users == <<"/", "u", "s", "e", "r", "s", "/", ":", "u", "s", "e", "r", "I", "d">>

path_products == <<"/", "u", "s", "e", "r", "s", "/", ":", "u", "s", "e", "r", "I", "d", "/", "p", "r", "o", "d", "u", "c", "t", "s", "/", ":", "p", "r", "o", "d", "u", "c", "t", "I", "d">>

path_x_a == <<":", ":", "x", "/", "a">>

path_illegal == <<"a", " ", "b">>

url_root == <<"/">>

url_a == <<"/", "a">>

url_a_slash == <<"/", "a", "/">>

url_c == <<"/", "c">>

url_c_a == <<"/", "c", "/", "a">>

url_a_c == <<"/", "a", "/", "c">>

url_colon_u == <<"/", ":", "u">>

url_malformed == <<"/", "%">>

url_encoded == <<"/", "c", "%", "2", "F", "d", "/", "e">>

url_users_abc == <<"/", "u", "s", "e", "r", "s", "/", "a", "b", "c">>

url_users_abc_products == <<"/", "u", "s", "e", "r", "s", "/", "a", "b", "c", "/", "p", "r", "o", "d", "u", "c", "t", "s">>

url_users_abc_products_def == <<"/", "u", "s", "e", "r", "s", "/", "a", "b", "c", "/", "p", "r", "o", "d", "u", "c", "t", "s", "/", "d", "e", "f">>

samples1 == <<"s", "a", "m", "p", "l", "e", "s", "/", "1">>

samples2 == <<"s", "a", "m", "p", "l", "e", "s", "/", "2">>

notFoundTxt == <<"n", "o", "t", "-", "f", "o", "u", "n", "d", ".", "t", "x", "t">>

ONE_TXT == <<"1", ".", "t", "x", "t">>

angular2 == <<"n", "o", "d", "e", "_", "m", "o", "d", "u", "l", "e", "s", "/", "a", "n", "g", "u", "l", "a", "r", "2">>

url_one_txt == <<"/", "1", ".", "t", "x", "t">>

url_angular2_one_txt == <<"/", "n", "o", "d", "e", "_", "m", "o", "d", "u", "l", "e", "s", "/", "a", "n", "g", "u", "l", "a", "r", "2", "/", "1", ".", "t", "x", "t">>

url_other_one_txt == <<"/", "n", "o", "d", "e", "_", "m", "o", "d", "u", "l", "e", "s", "/", "o", "t", "h", "e", "r", "/", "1", ".", "t", "x", "t">>

url_colon_filePath == <<"/", ":", ":", "f", "i", "l", "e", "P", "a", "t", "h">>

other_one_txt == <<"n", "o", "d", "e", "_", "m", "o", "d", "u", "l", "e", "s", "/", "o", "t", "h", "e", "r", "/", "1", ".", "t", "x", "t">>

\* the (method, pathname) pairs user code registers
AddRouteInputs ==
  ({ GET } \X { path_a, path_a_slashes, path_slash_a, path_slashes_a, path_a_x,
                path_x, path_u, path_v, path_users, path_products, path_x_a,
                path_illegal })
  \cup { <<POST, path_a>>, <<POST, path_u>>, <<PUT, path_a>>, <<DELETE, path_a>>,
         <<PATCH, path_a>>, <<TRACE, path_a>> }

\* the bodies of the POST requests, as the chunks of their 'data' events
Bodies ==
  { << <<"{", "}">> >>, << <<"{", "name", ":">>, <<"a", "}">> >>,
    << <<"}">>, <<"{">> >>, <<>> }

\* the requests the clients of a server with rest routes send
RestRequests ==
  ({ GET } \X { url_root, url_a, url_a_slash, url_c, url_c_a, url_a_c,
                url_colon_u, url_malformed, url_encoded, url_users_abc,
                url_users_abc_products, url_users_abc_products_def }
           \X { <<>> })
  \cup ({ POST } \X { url_a, url_c } \X Bodies)
  \cup { <<PUT, url_a, << <<"{", "}">> >> >>, <<DELETE, url_a, <<>> >>,
         <<PATCH, url_a, <<>> >>, <<TRACE, url_a, <<>> >> }

\* the requests the clients of a static server send
StaticRequests ==
  { GET } \X { url_root, url_one_txt, url_angular2_one_txt, url_other_one_txt,
               url_colon_filePath }
          \X { <<>> }

\* settings.paths: url path and static paths, in the order of the settings
PathsSettings ==
  { << [urlPath |-> <<>>, staticPaths |-> <<samples1, samples2>>] >>,
    << [urlPath |-> <<>>, staticPaths |-> <<samples1>>],
       [urlPath |-> angular2, staticPaths |-> <<samples2>>] >> }

\* the file systems a static server runs on
FileSystems ==
  { f \in [ { samples1, samples2, notFoundTxt,
              pathJoin(samples1, ONE_TXT), pathJoin(samples2, ONE_TXT),
              pathJoin(samples1, INDEX_HTML), pathJoin(samples2, INDEX_HTML),
              pathJoin(samples1, other_one_txt) } -> FileKinds ] :
      /\ f[samples1] = "directory" /\ f[samples2] = "directory"
      /\ f[notFoundTxt] \in { "file", "unreadable" }
      /\ f[pathJoin(samples1, ONE_TXT)] # "directory"
      /\ f[pathJoin(samples2, ONE_TXT)] \in { "file", "absent" }
      /\ f[pathJoin(samples1, INDEX_HTML)] \in { "file", "absent", "unreadable" }
      /\ f[pathJoin(samples2, INDEX_HTML)] \in { "file", "absent" }
      /\ f[pathJoin(samples1, other_one_txt)] = "file" }

\* ------------------------------------------------------------------------
\* file-watcher.js: the notification connections
\* ------------------------------------------------------------------------

Connections == 1..MaxConnections

\* this._clients before listenOn has run: undefined (0 is no connection)
NoClients == <<0>>

\* waitTimeout: whether a timer is pending, when it is due, and the
\* arguments its callback passes on
NoTimeout == [pending |-> FALSE, deadline |-> 0, args |-> "none"]

\* a connection that no client has made yet.  sends and transmitted are
\* history: the calls of ws.send and the calls of the send of the socket
\* itself, each with the instant and the state of the connection; openedAt
\* is the instant of the open event
NoSocket ==
  [readyState |-> "none", debounced |-> FALSE, waitTimeout |-> NoTimeout,
   sends |-> <<>>, transmitted |-> <<>>, openedAt |-> -1]

\* the connections in this._clients
broadcastSet == IF clients = NoClients THEN {} ELSE { clients[i] : i \in 1..Len(clients) }

CSS == <<".", "c", "s", "s">>

\* the message of the change listener for every file
messageAlwaysReload(filePath) == "reload"

\* the message of the change listener for a changed file
message(filePath) == IF extname(filePath) = CSS THEN "refreshcss" ELSE "reload"

\* the send of the socket itself (wssend)
wssend(socket, msg) ==
  [socket EXCEPT !.transmitted =
     Append(@, [message |-> msg, at |-> now, readyState |-> socket.readyState])]

\* ws.send as the upgrade listener leaves it: with wait > 0 it clears the
\* pending timer and sets a new one, otherwise it is the send of the socket
wsSend(socket, msg) ==
  LET called == [socket EXCEPT !.sends =
                   Append(@, [message |-> msg, at |-> now,
                              readyState |-> socket.readyState])]
  IN IF socket.debounced
     THEN [called EXCEPT !.waitTimeout = [pending |-> TRUE, deadline |-> now + wait,
                                          args |-> msg]]
     ELSE wssend(called, msg)

\* the callback of setTimeout: wssend.apply(ws, args)
timeoutCallback(socket) ==
  [wssend(socket, socket.waitTimeout.args) EXCEPT !.waitTimeout.pending = FALSE]

\* the upgrade listener: new WebSocket(request, socket, head)
upgraded == [NoSocket EXCEPT !.readyState = "connecting", !.debounced = wait > 0]

\* ws.onopen
onopen(socket) ==
  wsSend([socket EXCEPT !.readyState = "open", !.openedAt = now], "connected")

\* the change listener of addWatch: self._clients.forEach
change(filePath) ==
  [c \in Connections |->
     IF c \in broadcastSet THEN wsSend(ws[c], message(filePath)) ELSE ws[c]]

\* the watchers addStaticPaths obtains for staticPaths when the watches of
\* the indices in established can be set up: it stops at the first failure
firstFailure(staticPaths, established) ==
  IF \A i \in 1..Len(staticPaths) : i \in established THEN Len(staticPaths) + 1
  ELSE CHOOSE i \in 1..Len(staticPaths) :
         i \notin established /\ \A j \in 1..(i - 1) : j \in established

obtained(staticPaths, established) ==
  [i \in 1..(firstFailure(staticPaths, established) - 1) |->
     [path |-> staticPaths[i], closed |-> FALSE]]

\* ------------------------------------------------------------------------
\* Construction
\* ------------------------------------------------------------------------

\* addStaticPaths: the route of one static mapping
addStaticPaths(rts, urlPath, staticPaths) ==
  addRoute(rts, GET, urlPath \o <<"/", ":", ":">> \o FILE_PATH,
           servePathsCallback(urlPath, staticPaths))

RECURSIVE addAllPaths(_, _, _)
\* the loop of the constructor over settings.paths, each through addPaths
addAllPaths(rts, paths, i) ==
  IF i > Len(paths) THEN rts
  ELSE addAllPaths(addStaticPaths(rts, normalizePath(paths[i].urlPath),
                                  paths[i].staticPaths).routes,
                   paths, i + 1)

\* the addRoute calls of the constructor, for the history
constructorCalls(paths) ==
  [i \in 1..Len(paths) |->
     [method |-> GET,
      pathname |-> normalizePath(paths[i].urlPath) \o <<"/", ":", ":">> \o FILE_PATH,
      callback |-> servePathsCallback(normalizePath(paths[i].urlPath),
                                      paths[i].staticPaths),
      threw |-> "none"]]

RECURSIVE constructorWatchers(_, _)
\* the watchers the constructor obtains for settings.paths from the i-th
\* mapping on; the constructor returns only when every watch was set up
constructorWatchers(paths, i) ==
  IF i > Len(paths) THEN <<>>
  ELSE obtained(paths[i].staticPaths, 1..Len(paths[i].staticPaths))
       \o constructorWatchers(paths, i + 1)

RECURSIVE constructorListeners(_, _, _)
\* the 'close' listeners the constructor adds from the i-th mapping on, each
\* with the indices of its watchers, n watchers existing before
constructorListeners(paths, i, n) ==
  IF i > Len(paths) THEN <<>>
  ELSE << (n + 1)..(n + Len(paths[i].staticPaths)) >>
       \o constructorListeners(paths, i + 1, n + Len(paths[i].staticPaths))

\* new TyrannoServe(settings)
Constructed(paths, noListen, notFound, fileSystem) ==
  /\ routes = addAllPaths(EmptyRoutes, paths, 1)
  /\ calls = constructorCalls(paths)
  /\ shouldListen = ~noListen
  /\ defaults = [builtinDefaults EXCEPT !.notFound = notFound]
  /\ fs = fileSystem
  /\ listening = FALSE
  /\ crashed = FALSE
  /\ req = [r \in Requests |-> IdleRequest]
  /\ now = 0
  /\ clients = NoClients
  /\ ws = [c \in Connections |-> NoSocket]
  /\ watchers = IF noListen THEN <<>> ELSE constructorWatchers(paths, 1)
  /\ emitter = IF noListen THEN <<>> ELSE constructorListeners(paths, 1, 0)
  /\ pathsCalls = <<>>
  /\ closeCalls = <<>>
  /\ changes = <<>>

\* ------------------------------------------------------------------------
\* Actions of the file watcher and of the watches
\* ------------------------------------------------------------------------

\* close() has closed the http server
serverClosed == \E i \in 1..Len(closeCalls) : ~closeCalls[i].threw

\* user code calls addPaths(urlPath, staticPaths); watchr.watch returns a
\* watcher for the static paths whose index is in established
AddPaths(urlPath, staticPaths, established) ==
  /\ ~crashed
  /\ Len(pathsCalls) < MaxAddPaths
  /\ LET callback == servePathsCallback(normalizePath(urlPath), staticPaths)
         result == addStaticPaths(routes, normalizePath(urlPath), staticPaths)
         failure == firstFailure(staticPaths, established)
         watching == shouldListen /\ result.threw = "none"
         threw == result.threw # "none"
                  \/ (watching /\ failure <= Len(staticPaths))
     IN /\ routes' = result.routes
        /\ calls' = Append(calls, [method |-> GET,
                                   pathname |-> normalizePath(urlPath)
                                                \o <<"/", ":", ":">> \o FILE_PATH,
                                   callback |-> callback, threw |-> result.threw])
        /\ watchers' = IF watching
                       THEN watchers \o obtained(staticPaths, established)
                       ELSE watchers
        /\ emitter' = IF watching /\ ~threw
                      THEN Append(emitter, (Len(watchers) + 1)
                                             ..(Len(watchers) + Len(staticPaths)))
                      ELSE emitter
        /\ pathsCalls' = Append(pathsCalls,
                                [urlPath |-> urlPath, staticPaths |-> staticPaths,
                                 established |-> established, threw |-> threw])
  /\ UNCHANGED <<shouldListen, defaults, fs, listening, crashed, req>>
  /\ UNCHANGED <<wait, now, clients, ws, closeCalls, changes>>

\* user code calls close(): this._server.close(callback), then the 'close'
\* listeners; before listen() this._server is undefined
Close ==
  /\ ~crashed
  /\ Len(closeCalls) < MaxClose
  /\ closeCalls' = Append(closeCalls, [threw |-> ~listening,
                                       watchers |-> Len(watchers)])
  /\ watchers' = IF ~listening THEN watchers
                 ELSE [w \in 1..Len(watchers) |->
                         IF \E i \in 1..Len(emitter) : w \in emitter[i]
                         THEN [watchers[w] EXCEPT !.closed = TRUE]
                         ELSE watchers[w]]
  /\ UNCHANGED <<routes, calls, shouldListen, defaults, fs, listening, crashed, req>>
  /\ UNCHANGED <<wait, now, clients, ws, emitter, pathsCalls, changes>>

\* the 'upgrade' event of the http server for a new connection c
Upgrade(c) ==
  /\ ~crashed
  /\ listening /\ ~serverClosed
  /\ ws[c].readyState = "none"
  /\ \A c0 \in Connections : c0 < c => ws[c0].readyState # "none"
  /\ ws' = [ws EXCEPT ![c] = upgraded]
  /\ clients' = Append(clients, c)
  /\ UNCHANGED <<routes, calls, shouldListen, defaults, fs, listening, crashed, req>>
  /\ UNCHANGED <<wait, now, watchers, emitter, pathsCalls, closeCalls, changes>>

\* the open event of connection c
Open(c) ==
  /\ ~crashed
  /\ ws[c].readyState = "connecting"
  /\ ws' = [ws EXCEPT ![c] = onopen(ws[c])]
  /\ UNCHANGED <<routes, calls, shouldListen, defaults, fs, listening, crashed, req>>
  /\ UNCHANGED <<wait, now, clients, watchers, emitter, pathsCalls, closeCalls, changes>>

\* the close event of connection c: ws.onclose
OnClose(c) ==
  /\ ~crashed
  /\ ws[c].readyState \in { "connecting", "open" }
  /\ ws' = [ws EXCEPT ![c].readyState = "closed"]
  /\ clients' = SelectSeq(clients, LAMBDA x : x # c)
  /\ UNCHANGED <<routes, calls, shouldListen, defaults, fs, listening, crashed, req>>
  /\ UNCHANGED <<wait, now, watchers, emitter, pathsCalls, closeCalls, changes>>

\* watcher w reports a change of filePath; before listenOn this._clients is
\* undefined and forEach throws
Change(w, filePath) ==
  /\ ~crashed
  /\ Len(changes) < MaxChanges
  /\ w \in 1..Len(watchers) /\ ~watchers[w].closed
  /\ changes' = Append(changes, [filePath |-> filePath, at |-> now,
                                 clients |-> clients])
  /\ IF clients = NoClients
     THEN crashed' = TRUE /\ ws' = ws
     ELSE crashed' = FALSE /\ ws' = change(filePath)
  /\ UNCHANGED <<routes, calls, shouldListen, defaults, fs, listening, req>>
  /\ UNCHANGED <<wait, now, clients, watchers, emitter, pathsCalls, closeCalls>>

\* the timer of connection c is due
Timeout(c) ==
  /\ ~crashed
  /\ ws[c].waitTimeout.pending /\ ws[c].waitTimeout.deadline <= now
  /\ ws' = [ws EXCEPT ![c] = timeoutCallback(ws[c])]
  /\ UNCHANGED <<routes, calls, shouldListen, defaults, fs, listening, crashed, req>>
  /\ UNCHANGED <<wait, now, clients, watchers, emitter, pathsCalls, closeCalls, changes>>

\* time passes; a timer that is due runs before the clock moves on
Tick ==
  /\ ~crashed
  /\ now < MaxTime
  /\ \A c \in Connections :
       ws[c].waitTimeout.pending => ws[c].waitTimeout.deadline > now
  /\ now' = now + 1
  /\ UNCHANGED <<routes, calls, shouldListen, defaults, fs, listening, crashed, req>>
  /\ UNCHANGED <<wait, clients, ws, watchers, emitter, pathsCalls, closeCalls, changes>>

\* ------------------------------------------------------------------------
\* Specifications
\* ------------------------------------------------------------------------

\* a server without static paths, to which user code adds rest routes
Init == Constructed(<<>>, FALSE, BuiltinDefault, << >>) /\ wait = 0

Next ==
  \/ \E input \in AddRouteInputs : AddRoute(input[1], input[2])
  \/ Listen
  \/ \E r \in Requests, request \in RestRequests :
       Serve(r, request[1], request[2], request[3])
  \/ \E r \in Requests : BodyData(r)
  \/ \E r \in Requests : BodyEnd(r)

Spec == Init /\ [][Next]_vars

\* a static server: settings.paths, noListen and notFound of the settings
InitStatic ==
  \E paths \in PathsSettings, noListen \in BOOLEAN,
     notFound \in { BuiltinDefault, fileDefault(notFoundTxt) },
     fileSystem \in FileSystems :
    Constructed(paths, noListen, notFound, fileSystem) /\ wait = 0

NextStatic ==
  \/ Listen
  \/ \E r \in Requests, request \in StaticRequests :
       Serve(r, request[1], request[2], request[3])
  \/ \E r \in Requests : LstatCallback(r)
  \/ \E r \in Requests : ReadFileCallback(r)
  \/ \E r \in Requests : SendEvent(r)

SpecStatic == InitStatic /\ [][NextStatic]_vars

\* the file systems of a static server with two candidate directories
InterleavedFileSystems ==
  { f \in [ { samples1, samples2,
              pathJoin(samples1, ONE_TXT), pathJoin(samples2, ONE_TXT),
              pathJoin(samples1, INDEX_HTML), pathJoin(samples2, INDEX_HTML) }
            -> FileKinds ] :
      /\ f[samples1] = "directory" /\ f[samples2] = "directory"
      /\ f[pathJoin(samples1, ONE_TXT)] \in { "file", "absent", "noaccess" }
      /\ f[pathJoin(samples2, ONE_TXT)] \in { "file", "absent" }
      /\ f[pathJoin(samples1, INDEX_HTML)] \in { "file", "absent" }
      /\ f[pathJoin(samples2, INDEX_HTML)] \in { "file", "absent" } }

\* the requests that are in flight together
InterleavedRequests == { GET } \X { url_root, url_one_txt } \X { <<>> }

\* a static server of two candidate directories that handles several
\* requests at once
InitInterleaved ==
  \E noListen \in BOOLEAN, fileSystem \in InterleavedFileSystems :
    Constructed(<< [urlPath |-> <<>>, staticPaths |-> <<samples1, samples2>>] >>,
                noListen, BuiltinDefault, fileSystem) /\ wait = 0

NextInterleaved ==
  \/ Listen
  \/ \E r \in Requests, request \in InterleavedRequests :
       ServeInterleaved(r, request[1], request[2], request[3])
  \/ \E r \in Requests : LstatCallback(r)
  \/ \E r \in Requests : ReadFileCallback(r)
  \/ \E r \in Requests : SendEvent(r)

SpecInterleaved == InitInterleaved /\ [][NextInterleaved]_vars

\* the file systems of a static server whose index.html may be a file that
\* cannot be read, or a directory
ModesFileSystems ==
  { f \in [ { samples1, samples2,
              pathJoin(samples1, ONE_TXT), pathJoin(samples2, ONE_TXT),
              pathJoin(samples1, INDEX_HTML), pathJoin(samples2, INDEX_HTML) }
            -> FileKinds ] :
      /\ f[samples1] = "directory" /\ f[samples2] = "directory"
      /\ f[pathJoin(samples1, ONE_TXT)] \in { "file", "absent", "noaccess" }
      /\ f[pathJoin(samples2, ONE_TXT)] \in { "file", "absent" }
      /\ f[pathJoin(samples1, INDEX_HTML)]
           \in { "file", "absent", "directory", "unreadable" }
      /\ f[pathJoin(samples2, INDEX_HTML)] \in { "file", "absent" } }

\* a static server of two candidate directories, with and without live
\* reload
InitModes ==
  \E noListen \in BOOLEAN, fileSystem \in ModesFileSystems :
    Constructed(<< [urlPath |-> <<>>, staticPaths |-> <<samples1, samples2>>] >>,
                noListen, BuiltinDefault, fileSystem) /\ wait = 0

NextModes ==
  \/ Listen
  \/ \E r \in Requests, request \in InterleavedRequests :
       Serve(r, request[1], request[2], request[3])
  \/ \E r \in Requests : LstatCallback(r)
  \/ \E r \in Requests : ReadFileCallback(r)
  \/ \E r \in Requests : SendEvent(r)

SpecModes == InitModes /\ [][NextModes]_vars

P_HTM == <<"P", ".", "H", "T", "M">>

README == <<"R", "E", "A", "D", "M", "E">>

t_css == <<"t", ".", "c", "s", "s">>

url_P_HTM == <<"/", "P", ".", "H", "T", "M">>

url_README == <<"/", "R", "E", "A", "D", "M", "E">>

url_t_css == <<"/", "t", ".", "c", "s", "s">>

\* the file systems of a static server with documents and other files
InjectFileSystems ==
  { f \in [ { samples1, pathJoin(samples1, INDEX_HTML), pathJoin(samples1, P_HTM),
              pathJoin(samples1, README), pathJoin(samples1, t_css),
              pathJoin(samples1, ONE_TXT) } -> FileKinds ] :
      /\ f[samples1] = "directory"
      /\ f[pathJoin(samples1, INDEX_HTML)] \in { "file", "absent" }
      /\ f[pathJoin(samples1, P_HTM)] \in { "file", "absent" }
      /\ f[pathJoin(samples1, README)] \in { "file", "absent" }
      /\ f[pathJoin(samples1, t_css)] \in { "file", "absent" }
      /\ f[pathJoin(samples1, ONE_TXT)] = "file" }

\* the requests for the documents and the other files
InjectRequests ==
  { GET } \X { url_root, url_P_HTM, url_README, url_t_css, url_one_txt }
          \X { <<>> }

\* a static server of one directory, with and without live reload
InitInject ==
  \E noListen \in BOOLEAN, fileSystem \in InjectFileSystems :
    Constructed(<< [urlPath |-> <<>>, staticPaths |-> <<samples1>>] >>,
                noListen, BuiltinDefault, fileSystem) /\ wait = 0

NextInject ==
  \/ Listen
  \/ \E r \in Requests, request \in InjectRequests :
       Serve(r, request[1], request[2], request[3])
  \/ \E r \in Requests : LstatCallback(r)
  \/ \E r \in Requests : ReadFileCallback(r)
  \/ \E r \in Requests : SendEvent(r)

SpecInject == InitInject /\ [][NextInject]_vars

\* the callbacks the event loop has pending
Callbacks ==
  \E r \in Requests : LstatCallback(r) \/ ReadFileCallback(r) \/ SendEvent(r)

\* the event loop keeps running pending callbacks
FairSpecStatic == SpecStatic /\ WF_vars(Callbacks)

style_css == <<"s", "t", "y", "l", "e", ".", "c", "s", "s">>

app_js == <<"a", "p", "p", ".", "j", "s">>

\* the files whose change the watchers report
ChangedFiles == { style_css, app_js }

\* settings.wait, when a debounce interval is configured
Waits == { 1, 2 }

\* settings.paths of a server with live reload
WatchSettings ==
  { <<>>, << [urlPath |-> <<>>, staticPaths |-> <<samples1>>] >> }

\* the addPaths calls user code makes, each with the static paths whose
\* watch can be set up
AddPathsInputs ==
  { <<angular2, <<samples2>>, {}>>, <<angular2, <<samples2>>, { 1 }>>,
    <<angular2, <<samples1, samples2>>, { 1 }>>,
    <<angular2, <<samples1, samples2>>, { 1, 2 }>> }

\* a server with live reload, one watch and a debounce interval, and its
\* notification connections
InitWatch ==
  \E w \in Waits :
    /\ Constructed(<< [urlPath |-> <<>>, staticPaths |-> <<samples1>>] >>,
                   FALSE, BuiltinDefault, << >>)
    /\ wait = w

NextWatch ==
  \/ Listen
  \/ \E c \in Connections : Upgrade(c)
  \/ \E c \in Connections : Open(c)
  \/ \E c \in Connections : OnClose(c)
  \/ \E w \in 1..Len(watchers), filePath \in ChangedFiles : Change(w, filePath)
  \/ \E c \in Connections : Timeout(c)
  \/ Tick

SpecWatch == InitWatch /\ [][NextWatch]_vars

\* the same server without a debounce interval: no timer is ever set
InitBroadcast ==
  /\ Constructed(<< [urlPath |-> <<>>, staticPaths |-> <<samples1>>] >>,
                 FALSE, BuiltinDefault, << >>)
  /\ wait = 0

NextBroadcast ==
  \/ Listen
  \/ \E c \in Connections : Upgrade(c)
  \/ \E c \in Connections : Open(c)
  \/ \E c \in Connections : OnClose(c)
  \/ \E w \in 1..Len(watchers), filePath \in ChangedFiles : Change(w, filePath)

SpecBroadcast == InitBroadcast /\ [][NextBroadcast]_vars

\* a server, the watches of its static paths, and its closing
InitWatches ==
  \E paths \in WatchSettings, noListen \in BOOLEAN :
    Constructed(paths, noListen, BuiltinDefault, << >>) /\ wait = 0

NextWatches ==
  \/ \E input \in AddPathsInputs : AddPaths(input[1], input[2], input[3])
  \/ Listen
  \/ Close
  \/ \E w \in 1..Len(watchers), filePath \in ChangedFiles : Change(w, filePath)

SpecWatches == InitWatches /\ [][NextWatches]_vars

notFoundHtml == <<"n", "o", "t", "-", "f", "o", "u", "n", "d", ".", "h", "t", "m", "l">>

\* the callbacks that use the response senders
SenderCallbacks ==
  { defaultCallback(key) :
      key \in { "ok", "notFound", "badRequest", "internalServerError", "fromStatus" } }
  \cup { fileCallback(key, filePath, nextCallback) :
           key \in { "ok", "notFound" },
           filePath \in { pathJoin(samples1, ONE_TXT), samples1 },
           nextCallback \in BOOLEAN }
  \cup { fileCallback("fromStatus", pathJoin(samples1, ONE_TXT), FALSE) }

\* the file systems of a server whose handlers send files
SenderFileSystems ==
  { f \in [ { samples1, pathJoin(samples1, ONE_TXT), pathJoin(samples1, INDEX_HTML),
              notFoundTxt, notFoundHtml } -> FileKinds ] :
      /\ f[samples1] = "directory"
      /\ f[pathJoin(samples1, ONE_TXT)] \in { "file", "absent", "noaccess" }
      /\ f[pathJoin(samples1, INDEX_HTML)] \in { "file", "absent" }
      /\ f[notFoundTxt] \in { "file", "unreadable" }
      /\ f[notFoundHtml] = "file" }

\* a server without static paths whose handlers use the response senders
InitSenders ==
  \E noListen \in BOOLEAN, fileSystem \in SenderFileSystems :
    Constructed(<<>>, noListen, BuiltinDefault, fileSystem) /\ wait = 0

NextSenders ==
  \/ \E callback \in SenderCallbacks : AddHandler(path_a, callback)
  \/ \E input \in { notFoundTxt, notFoundHtml } : NotFoundDefault(input)
  \/ Listen
  \/ \E r \in Requests, pathname \in { url_a, url_c } : Serve(r, GET, pathname, <<>>)
  \/ \E r \in Requests : LstatCallback(r)
  \/ \E r \in Requests : ReadFileCallback(r)
  \/ \E r \in Requests : SendEvent(r)

SpecSenders == InitSenders /\ [][NextSenders]_vars

\* the routes user code registers, some of them twice
AgainInputs ==
  { <<GET, path_a>>, <<GET, path_a_slashes>>, <<GET, path_u>>, <<GET, path_users>>,
    <<GET, path_products>>, <<GET, path_a_x>>, <<POST, path_a>> }

\* the requests sent to a server with routes registered twice
AgainRequests ==
  { <<GET, url_a, <<>> >>, <<GET, url_c, <<>> >>, <<GET, url_a_c, <<>> >>,
    <<GET, url_users_abc, <<>> >>, <<GET, url_users_abc_products_def, <<>> >>,
    <<POST, url_a, << <<"{", "}">> >> >> }

\* a server whose user code registers a route again
NextAgain ==
  \/ \E input \in AgainInputs : AddRoute(input[1], input[2])
  \/ \E i \in 1..(MaxAddRoute + MaxAgain) : AddRouteAgain(i)
  \/ Listen
  \/ \E r \in Requests, request \in AgainRequests :
       Serve(r, request[1], request[2], request[3])
  \/ \E r \in Requests : BodyData(r)
  \/ \E r \in Requests : BodyEnd(r)

SpecAgain == Init /\ [][NextAgain]_vars

\* ------------------------------------------------------------------------
\* Properties
\* ------------------------------------------------------------------------

\* the addRoute calls that returned without an error
succeeded == { i \in 1..Len(calls) : calls[i].threw = "none" }

\* call i registered the route key (method, normalized path) of call j
sameRoute(i, j) ==
  /\ calls[i].method = calls[j].method
  /\ normalizePath(calls[i].pathname) = normalizePath(calls[j].pathname)

\* call i is the last successful registration of its route key
lastOfRoute(i) ==
  i \in succeeded /\ \A j \in succeeded : sameRoute(i, j) => j <= i

\* request r was routed on the trie as it is now
routedNow(r) == req[r].pc # "idle" /\ req[r].nCalls = Len(calls)

\* request r has been answered or handed to its handler to the end
finished(r) == req[r].pc = "done"

\* C1: a request for the method and the normalized path of a registered
\* route invokes the handler registered for that route, and no other
C1_RegisteredHandlerInvoked ==
  \A r \in Requests : \A i \in 1..Len(calls) :
    ( /\ routedNow(r) /\ finished(r) /\ lastOfRoute(i)
      /\ req[r].method = calls[i].method
      /\ normalizePath(req[r].pathname) = normalizePath(calls[i].pathname) )
    => req[r].invoked = << calls[i].callback >>

\* the walk of serve over the first n pieces of request r
walkOf(r, n) ==
  serveWalk(routes,
            SubSeq(getPieces(normalizePath(req[r].pathname), req[r].method), 1, n),
            1, <<>>, << >>, <<>>)

piecesOf(r) == getPieces(normalizePath(req[r].pathname), req[r].method)

\* the pieces at which the walk of request r first hands a piece to a
\* greedy child
greedyStarts(r) ==
  { n \in 1..Len(piecesOf(r)) :
      /\ ~walkOf(r, n).threw
      /\ walkOf(r, n).doubleColonPieces # <<>>
      /\ \A m \in 1..(n - 1) : walkOf(r, m).doubleColonPieces = <<>> }

\* C2: once a greedy child starts consuming, it consumes every following
\* segment: its handler is invoked, and its name is bound to all of those
\* segments joined by '/' and percent-decoded
C2_GreedyConsumesTheRest ==
  \A r \in Requests : \A n \in greedyStarts(r) :
    LET node == walkOf(r, n).current
        greedy == findVariable(routes, node)
        rest == join(SubSeq(piecesOf(r), n, Len(piecesOf(r))), Slash)
    IN ( /\ routedNow(r) /\ finished(r)
         /\ hasCallback(routes, Append(node, greedy))
         /\ ~decodeURIComponent(rest).threw )
       => /\ req[r].invoked = << routes[Append(node, greedy)].callback >>
          /\ substring(greedy, 2) \in DOMAIN req[r].routeParams
          /\ req[r].routeParams[substring(greedy, 2)]
               = decodeURIComponent(rest).value

\* the pieces of prefix are the first pieces of the normalized pathname
under(prefix, pathname) ==
  LET pieces == split(normalizePath(pathname))
      first == split(prefix)
  IN Len(first) <= Len(pieces) /\ SubSeq(pieces, 1, Len(first)) = first

\* C3: with a static mapping on the empty prefix and one on a more specific
\* prefix, a GET request under the specific prefix is served by the specific
\* mapping and every other GET request by the mapping of the empty prefix
C3_MostSpecificMappingWins ==
  \A r \in Requests :
    ( /\ req[r].pc # "idle" /\ req[r].method = GET
      /\ Len(calls) = 2
      /\ calls[1].callback = servePathsCallback(<<>>, <<samples1>>)
      /\ calls[2].callback = servePathsCallback(angular2, <<samples2>>) )
    => req[r].invoked
         = << IF under(angular2, req[r].pathname)
              THEN calls[2].callback ELSE calls[1].callback >>

\* the keys of variable kind (':name' or '::name') of a trie node
variableKeys(node) ==
  { routes[node].keys[i] : i \in { j \in 1..Len(routes[node].keys) :
                                      isRouteVariable(routes[node].keys[j]) } }

\* C4: every trie level holds at most one child of variable kind
C4_OneVariablePerLevel ==
  \A node \in DOMAIN routes : Cardinality(variableKeys(node)) <= 1

\* the orders in which n calls can be made
Orders(n) == { f \in [1..n -> 1..n] : \A i, j \in 1..n : f[i] = f[j] => i = j }

RECURSIVE registerIn(_, _, _)
\* the outcome of making the calls in the given order on the trie rts,
\* starting with the i-th
registerIn(rts, order, i) ==
  IF i > Len(order) THEN [threw |-> "none", routes |-> rts]
  ELSE LET c == calls[order[i]]
           result == addRoute(rts, c.method, c.pathname, c.callback)
       IN IF result.threw # "none" THEN result
          ELSE registerIn(result.routes, order, i + 1)

\* the handler and the route parameters serve finds on trie rts
matchOn(rts, method, pathname) ==
  LET rt == route(rts, method, pathname)
  IN [threw |-> rt.threw,
      callback |-> IF hasCallback(rts, rt.current) THEN rts[rt.current].callback
                   ELSE NoCallback,
      routeParams |-> rt.routeParams]

\* C5: for routes with pairwise distinct keys, every order of registration
\* in which all registrations succeed gives every request the same handler
\* and the same route parameters
C5_RegistrationOrderIrrelevant ==
  ( /\ succeeded = 1..Len(calls)
    /\ \A i, j \in 1..Len(calls) : sameRoute(i, j) => i = j )
  => \A order \in Orders(Len(calls)) :
       LET other == registerIn(EmptyRoutes, order, 1)
       IN other.threw = "none"
          => \A request \in RestRequests :
               matchOn(other.routes, request[1], request[2])
                 = matchOn(routes, request[1], request[2])

\* the literal keys of a trie node
literalKeys(node) ==
  { routes[node].keys[i] : i \in { j \in 1..Len(routes[node].keys) :
                                      ~isRouteVariable(routes[node].keys[j]) } }

\* the walk of request r stands on a trie node before its n-th piece, and
\* that node has a literal child and, as its only child of variable kind, a
\* ':name' child
atLiteralAndVariable(r, n) ==
  LET before == walkOf(r, n - 1)
  IN /\ ~before.threw /\ before.current # Null
     /\ before.doubleColonPieces = <<>>
     /\ literalKeys(before.current) # {}
     /\ Cardinality(variableKeys(before.current)) = 1
     /\ \A variable \in variableKeys(before.current) :
          ~startsWithDoubleColon(variable)

\* C6: at a level with a literal child and a ':name' child, a segment equal
\* to the literal descends into the literal child, and every segment that
\* is no literal of the level (and can be percent-decoded) descends into the
\* variable child with the decoded segment bound to name
C6_LiteralBeforeVariable ==
  \A r \in Requests : \A n \in 2..Len(piecesOf(r)) :
    ( /\ routedNow(r) /\ atLiteralAndVariable(r, n)
      /\ ~decodeURIComponent(piecesOf(r)[n]).threw )
    => LET node == walkOf(r, n - 1).current
           segment == piecesOf(r)[n]
           variable == CHOOSE v \in variableKeys(node) : TRUE
           name == substring(variable, 1)
       IN IF segment \in literalKeys(node)
          THEN walkOf(r, n).current = Append(node, segment)
          ELSE /\ ~walkOf(r, n).threw
               /\ walkOf(r, n).current = Append(node, variable)
               /\ name \in DOMAIN req[r].routeParams
               /\ req[r].routeParams[name] = decodeURIComponent(segment).value

userId == <<"u", "s", "e", "r", "I", "d">>

productId == <<"p", "r", "o", "d", "u", "c", "t", "I", "d">>

abc == <<"a", "b", "c">>

def == <<"d", "e", "f">>

\* the walk of request r consumed every piece by descending, and stands on
\* a trie node
endsOnNode(r) ==
  LET walk == walkOf(r, Len(piecesOf(r)))
  IN ~walk.threw /\ walk.current # Null /\ walk.doubleColonPieces = <<>>

\* the node on which the walk of request r ends
endNode(r) == walkOf(r, Len(piecesOf(r))).current

\* the not-found default, and no route handler, was invoked for request r;
\* the server of Spec has the built-in default
notFoundOutcome(r) ==
  /\ req[r].invoked = <<>>
  /\ req[r].defaulted = <<"notFound">>
  /\ req[r].sent = << [status |-> 404, mimeType |-> "text/plain",
                       body |-> <<"Not found.">>, candidate |-> -1] >>

\* call i registered the route of pathname for GET
registers(i, pathname) ==
  calls[i].method = GET
  /\ normalizePath(calls[i].pathname) = normalizePath(pathname)

\* exactly '/users/:userId' and '/users/:userId/products/:productId' are
\* registered
usersAndProducts ==
  /\ succeeded = 1..Len(calls)
  /\ \A i \in 1..Len(calls) : registers(i, path_users) \/ registers(i, path_products)
  /\ \E i \in 1..Len(calls) : registers(i, path_users)
  /\ \E i \in 1..Len(calls) : registers(i, path_products)

\* the handler of the last call that registered pathname for GET
handlerOf(pathname) ==
  calls[CHOOSE i \in 1..Len(calls) : lastOfRoute(i) /\ registers(i, pathname)].callback

\* C7 as stated: a request whose segments end on a trie node without a
\* terminal handler is NotFound, whatever descendants the node has
C7_NoHandlerIsNotFound ==
  \A r \in Requests :
    (routedNow(r) /\ endsOnNode(r) /\ ~hasCallback(routes, endNode(r)))
    => notFoundOutcome(r)

\* C7 amended: a request whose segments end on a trie node that has neither
\* a terminal handler nor a greedy child is NotFound, whatever other
\* descendants the node has; with '/users/:userId' and
\* '/users/:userId/products/:productId' registered, '/users/abc/products' is
\* NotFound, and '/users/abc' and '/users/abc/products/def' invoke their
\* handlers with userId and productId bound to the request segments
C7_NoHandlerNoGreedyIsNotFound ==
  \A r \in Requests :
    /\ ( /\ routedNow(r) /\ endsOnNode(r)
         /\ ~hasCallback(routes, endNode(r))
         /\ findDoubleColon(routes, endNode(r)) = NoKey )
       => notFoundOutcome(r)
    /\ (routedNow(r) /\ usersAndProducts /\ req[r].method = GET)
       => /\ req[r].pathname = url_users_abc_products => notFoundOutcome(r)
          /\ req[r].pathname = url_users_abc
               => /\ req[r].invoked = << handlerOf(path_users) >>
                  /\ req[r].routeParams = [n \in { userId } |-> abc]
          /\ req[r].pathname = url_users_abc_products_def
               => /\ req[r].invoked = << handlerOf(path_products) >>
                  /\ req[r].routeParams
                       = [n \in { userId, productId } |->
                            IF n = userId THEN abc ELSE def]

\* '/users/abc/products' was requested with the two routes registered, and
\* answered by the not-found default
C7_Witness ==
  \E r \in Requests :
    /\ routedNow(r) /\ usersAndProducts
    /\ req[r].pathname = url_users_abc_products
    /\ endsOnNode(r) /\ routes[endNode(r)].keys # <<>>
    /\ notFoundOutcome(r)

\* request r is handled by the servePaths closure of a static mapping
static(r) ==
  req[r].pc # "idle" /\ req[r].staticPaths # <<>>
  /\ FILE_PATH \in DOMAIN req[r].routeParams

\* the file candidate i (counted from 0) of request r resolves to: the
\* joined path, or its index.html when the joined path is a directory
target(r, i) ==
  LET joined == pathJoin(req[r].staticPaths[i + 1], req[r].routeParams[FILE_PATH])
  IN IF kindOf(joined) = "directory" THEN pathJoin(joined, INDEX_HTML) ELSE joined

\* the file of request r exists in candidate i
existsIn(r, i) == kindOf(target(r, i)) \in { "file", "unreadable" }

\* the results that report a file as not found
NotFoundResults == { "ENOENT", "404" }

\* the results that report a failure other than not found
OtherFailures == { "EACCES", "EISDIR", "500" }

\* the fs.lstat calls made for the candidates of request r
lstatsOf(r) == SelectSeq(req[r].log, LAMBDA e : e.op = "lstat")

\* C8: the candidates are tried in their configured order, each at most
\* once, candidate i+1 only after candidate i was reported not found; the
\* first candidate in which the file exists produces the response, and when
\* every candidate is exhausted the not-found default (404) is produced
C8_CandidatesInOrder ==
  \A r \in Requests :
    static(r) =>
      /\ \A j \in 1..Len(lstatsOf(r)) : lstatsOf(r)[j].index = j - 1
      /\ \A j \in 1..Len(req[r].log) :
           (j > 1 /\ req[r].log[j].index # req[r].log[j - 1].index)
           => /\ req[r].log[j].index = req[r].log[j - 1].index + 1
              /\ req[r].log[j - 1].result \in NotFoundResults
      /\ ( /\ finished(r)
           /\ \E i \in 0..(Len(req[r].staticPaths) - 1) : existsIn(r, i) )
         => \E i \in 0..(Len(req[r].staticPaths) - 1) :
              /\ existsIn(r, i)
              /\ \A k \in 0..(i - 1) : ~existsIn(r, k)
              /\ req[r].sent[1].candidate = i
      /\ (finished(r) /\ req[r].index >= Len(req[r].staticPaths))
         => /\ "notFound" \in { req[r].defaulted[j] : j \in 1..Len(req[r].defaulted) }
            /\ req[r].sent[1].status = 404

\* C9: a stat or read failure other than not found produces the
\* internal-error outcome at once, and no further candidate is tried
C9_OtherFailureIsInternalError ==
  \A r \in Requests : \A j \in 1..Len(req[r].log) :
    (static(r) /\ req[r].log[j].result \in OtherFailures)
    => /\ j = Len(req[r].log)
       /\ req[r].index = req[r].log[j].index
       /\ req[r].defaulted # <<>>
       /\ req[r].defaulted[1] = "internalServerError"

\* C10: every request that enters the dispatcher eventually has a response
\* sent; no failure path retries forever.  (A request whose callback threw
\* has ended the process and is left aside, so that what is stated is the
\* part of the claim about retrying.)
C10_EveryRequestAnswered ==
  \A r \in Requests : (req[r].pc # "idle") ~> (req[r].sent # <<>> \/ crashed)

RECURSIVE concatenated(_)
\* the chunks of a body, one after the other
concatenated(chunks) ==
  IF chunks = <<>> THEN <<>> ELSE Head(chunks) \o concatenated(Tail(chunks))

\* the body of request r has ended and its 'end' listener has run
bodyEnded(r) ==
  /\ req[r].method \in BODY_METHODS
  /\ req[r].chunks = <<>>
  /\ req[r].pc \notin { "idle", "body" }
  /\ req[r].current # Null

\* C11: a POST or PUT request whose body is malformed or empty is a
\* recoverable failure of that request: its handler is invoked or a response
\* is written, and the process does not end
C11_MalformedBodyRecoverable ==
  \A r \in Requests :
    ( /\ bodyEnded(r) /\ hasCallback(routes, req[r].current)
      /\ JSONparse(concatenated(req[r].arrived)).threw )
    => /\ ~crashed
       /\ req[r].invoked # <<>> \/ req[r].sent # <<>>

\* C12: the handler of a matched POST or PUT request is invoked only after
\* the end of the body, once, with request.body the JSON parse of all chunks
\* concatenated in arrival order and with request.routeParams set; the
\* handler of a matched GET, DELETE or PATCH request is invoked without
\* waiting for a body
C12_HandlerAfterBody ==
  \A r \in Requests :
    /\ (req[r].method \in BODY_METHODS /\ req[r].pc = "body")
       => /\ req[r].invoked = <<>>
          /\ req[r].body = concatenated(req[r].arrived)
    /\ (req[r].method \in BODY_METHODS /\ req[r].invoked # <<>>)
       => /\ bodyEnded(r)
          /\ Len(req[r].invoked) = 1
          /\ ~JSONparse(concatenated(req[r].arrived)).threw
          /\ req[r].requestBody = JSONparse(concatenated(req[r].arrived)).value
          /\ routedNow(r)
               => req[r].routeParams
                    = route(routes, req[r].method, req[r].pathname).routeParams
    /\ ( /\ req[r].method \notin BODY_METHODS /\ routedNow(r)
         /\ ~route(routes, req[r].method, req[r].pathname).threw
         /\ hasCallback(routes, req[r].current) )
       => /\ Len(req[r].invoked) = 1
          /\ req[r].arrived = <<>> /\ req[r].requestBody = NoBody

\* a POST request whose body arrived in two chunks had its handler invoked
\* with the parsed object
C12_Witness ==
  \E r \in Requests :
    /\ req[r].method = POST /\ Len(req[r].arrived) = 2
    /\ Len(req[r].invoked) = 1
    /\ req[r].requestBody = [k \in { "name" } |-> "a"]

\* the calls of ws.send on connection c that a change event made
changeSends(c) ==
  { i \in 1..Len(ws[c].sends) : ws[c].sends[i].message # "connected" }

\* call i on connection c is the last change event of its burst: every
\* later change event is further away than the debounce window
lastOfBurst(c, i) ==
  /\ i \in changeSends(c)
  /\ \A j \in changeSends(c) :
       j > i => ws[c].sends[j].at - ws[c].sends[i].at > wait

\* call i on connection c is followed by a change event within the window
supersededInBurst(c, i) ==
  /\ i \in changeSends(c)
  /\ \E j \in changeSends(c) :
       j > i /\ ws[c].sends[j].at - ws[c].sends[i].at < wait

\* the messages transmitted to connection c for the timer set by call i
transmittedFor(c, i) ==
  { k \in 1..Len(ws[c].transmitted) :
      ws[c].transmitted[k].at = ws[c].sends[i].at + wait }

\* no call of ws.send on connection c coincided with the end of the window
\* of the call before it
offBoundary(c) ==
  \A i \in 2..Len(ws[c].sends) :
    ws[c].sends[i].at - ws[c].sends[i - 1].at # wait

\* C13: with a debounce interval, the change events of a burst (each within
\* the window of the previous one) produce one transmitted message per
\* connection, with the classification of the last event of the burst; no
\* message is transmitted for a change event that is followed by another
\* within the window; the messages are transmitted in the order of their
\* events.  (Events that coincide with the end of a window are left aside.)
C13_DebounceSendsLastOfBurst ==
  \A c \in Connections :
    (ws[c].debounced /\ offBoundary(c)) =>
      /\ \A i \in 1..Len(ws[c].sends) :
           (lastOfBurst(c, i) /\ now > ws[c].sends[i].at + wait)
           => /\ Cardinality(transmittedFor(c, i)) = 1
              /\ \A k \in transmittedFor(c, i) :
                   ws[c].transmitted[k].message = ws[c].sends[i].message
      /\ \A k \in 1..Len(ws[c].transmitted) :
           ws[c].transmitted[k].message # "connected"
           => \E i \in changeSends(c) :
                /\ ~supersededInBurst(c, i)
                /\ k \in transmittedFor(c, i)
                /\ ws[c].transmitted[k].message = ws[c].sends[i].message
      /\ \A k, l \in 1..Len(ws[c].transmitted) :
           k < l => ws[c].transmitted[k].at <= ws[c].transmitted[l].at

\* the positions of the connected messages transmitted to connection c
connectedTransmitted(c) ==
  { k \in 1..Len(ws[c].transmitted) : ws[c].transmitted[k].message = "connected" }

\* C14: a connection that has opened is sent exactly one connected message,
\* and sent it before any reload or refreshcss message: once the open event
\* is further back than the debounce interval, connected is the first
\* message transmitted and is transmitted once; before that, nothing but
\* connected has been transmitted
C14_ConnectedOnceAndFirst ==
  \A c \in Connections :
    ws[c].readyState = "open" =>
      /\ Cardinality(connectedTransmitted(c)) <= 1
      /\ ws[c].transmitted # <<>> => ws[c].transmitted[1].message = "connected"
      /\ now > ws[c].openedAt + wait => Cardinality(connectedTransmitted(c)) = 1

\* C15: a closed connection is not in the broadcast set, has no pending
\* debounce timer, and the send of its socket is not called after the close
\* event, also not for a message a change event scheduled before the close
C15_ClosedIsRemovedAndCancelled ==
  \A c \in Connections :
    ws[c].readyState = "closed" =>
      /\ c \notin broadcastSet
      /\ ~ws[c].waitTimeout.pending
      /\ \A k \in 1..Len(ws[c].transmitted) :
           ws[c].transmitted[k].readyState # "closed"

\* the message the spec gives for a change of filePath
classification(filePath) ==
  IF Len(filePath) >= 4 /\ SubSeq(filePath, Len(filePath) - 3, Len(filePath)) = CSS
  THEN "refreshcss" ELSE "reload"

\* a step in which a change event was handled without a debounce interval
changeHandled ==
  /\ wait = 0 /\ ~crashed'
  /\ Len(changes') = Len(changes) + 1

\* C16: without a debounce interval a change event transmits exactly one
\* message to every connection in the broadcast set, refreshcss for a file
\* whose extension is .css and reload otherwise, and nothing to any other
\* connection
C16_ChangeBroadcastsOneMessage ==
  [][changeHandled =>
       \A c \in Connections :
         IF c \in broadcastSet
         THEN /\ Len(ws'[c].transmitted) = Len(ws[c].transmitted) + 1
              /\ SubSeq(ws'[c].transmitted, 1, Len(ws[c].transmitted))
                 = ws[c].transmitted
              /\ ws'[c].transmitted[Len(ws'[c].transmitted)].message
                 = classification(changes'[Len(changes')].filePath)
         ELSE ws'[c] = ws[c]]_vars

\* both kinds of change have been broadcast to two connections, and a
\* change has passed by a connection that had closed
C16_Witness ==
  /\ wait = 0 /\ Len(changes) = 2
  /\ changes[1].filePath = style_css /\ changes[2].filePath = app_js
  /\ changes[1].clients = <<1, 2>> /\ changes[2].clients = <<2>>
  /\ ws[1].readyState = "closed" /\ ws[2].readyState = "open"
  /\ ws[1].transmitted = << [message |-> "connected", at |-> 0, readyState |-> "open"],
                            [message |-> "refreshcss", at |-> 0, readyState |-> "open"] >>
  /\ ws[2].transmitted = << [message |-> "connected", at |-> 0, readyState |-> "open"],
                            [message |-> "refreshcss", at |-> 0, readyState |-> "open"],
                            [message |-> "reload", at |-> 0, readyState |-> "open"] >>

\* C17: ws.send is called on a connection only while it is open: a change
\* event between the upgrade and the open event does not send to it
C17_SendsOnlyWhileOpen ==
  \A c \in Connections :
    \A i \in 1..Len(ws[c].sends) : ws[c].sends[i].readyState = "open"

\* a watch of addPaths call i could not be set up while the server watches
watchFailed(i) ==
  /\ shouldListen
  /\ \E k \in 1..Len(pathsCalls[i].staticPaths) : k \notin pathsCalls[i].established

\* the route of the mapping of addPaths call i is registered
mappingRegistered(i) ==
  \E j \in succeeded :
    /\ calls[j].method = GET
    /\ calls[j].pathname = normalizePath(pathsCalls[i].urlPath)
                             \o <<"/", ":", ":">> \o FILE_PATH
    /\ getPieces(calls[j].pathname, GET) \in DOMAIN routes
    /\ routes[getPieces(calls[j].pathname, GET)].callback = calls[j].callback

\* C18: when a watch of a static path cannot be set up, the call that adds
\* the mapping does not fail and the route of the mapping is registered
C18_FailedWatchDoesNotAbort ==
  \A i \in 1..Len(pathsCalls) :
    watchFailed(i) => (~pathsCalls[i].threw /\ mappingRegistered(i))

\* C19: after a call of close(), in whatever state it was made, every
\* watcher that addWatch had returned by then is closed
C19_CloseReleasesEveryWatch ==
  \A i \in 1..Len(closeCalls) :
    \A w \in 1..closeCalls[i].watchers : watchers[w].closed

\* the pathname of addRoute call i has a segment after a '::name' segment
segmentAfterGreedy(i) ==
  LET pieces == split(normalizePath(calls[i].pathname))
  IN \E k \in 1..(Len(pieces) - 1) :
       Len(pieces[k]) >= 2 /\ pieces[k][1] = ":" /\ pieces[k][2] = ":"

\* the nodes of the trie whose key is a '::name' segment
greedyNodes ==
  { p \in DOMAIN routes :
      p # <<>> /\ Len(p[Len(p)]) >= 2 /\ p[Len(p)][1] = ":" /\ p[Len(p)][2] = ":" }

\* C20: an addRoute call whose path has a segment after a '::name' segment
\* fails with an error, and in every trie a '::name' node has no children
C20_GreedyIsFinal ==
  /\ \A i \in 1..Len(calls) : segmentAfterGreedy(i) => calls[i].threw # "none"
  /\ \A p \in greedyNodes :
       /\ routes[p].keys = <<>>
       /\ \A q \in DOMAIN routes : Len(q) > Len(p) => SubSeq(q, 1, Len(p)) # p

\* '::x' was registered, and the registration of '::x/a' after it failed
C20_Witness ==
  /\ Len(calls) = 2
  /\ calls[1].pathname = path_x /\ calls[1].threw = "none"
  /\ calls[2].pathname = path_x_a
  /\ calls[2].threw = "Double colon variables must be final."
  /\ <<GET, path_x>> \in greedyNodes
  /\ routes[<<GET, path_x>>].callback = calls[1].callback

\* pathname without one leading and without one trailing slash
strippedOnce(pathname) ==
  LET from == IF pathname # <<>> /\ Head(pathname) = "/" THEN 2 ELSE 1
      to == IF Len(pathname) >= from /\ pathname[Len(pathname)] = "/"
            THEN Len(pathname) - 1 ELSE Len(pathname)
  IN SubSeq(pathname, from, to)

\* the trie node of the route key of addRoute call i
keyNode(i) == <<calls[i].method>> \o split(strippedOnce(calls[i].pathname))

\* call i is the last successful call among those with its route key
lastOfKey(i) ==
  /\ i \in succeeded
  /\ \A j \in succeeded : keyNode(j) = keyNode(i) => j <= i

\* the urls of the requests, each without and with a trailing slash
TrailingSlashPairs ==
  { <<url_a, url_a_slash>>, <<url_c, url_c \o Slash>>,
    <<url_users_abc, url_users_abc \o Slash>>, <<url_a_c, url_a_c \o Slash>> }

\* C21: registration and dispatch strip exactly one leading and one
\* trailing slash: the handler of every successful addRoute call is stored
\* at the node of its method and its stripped path, so 'a', '/a' and '/a/'
\* are one route key (and '//a' is another); requests for a url with and
\* without a trailing slash are routed to the same node with the same
\* route parameters
C21_OneSlashStripped ==
  /\ \A i \in succeeded :
       /\ keyNode(i) \in DOMAIN routes
       /\ lastOfKey(i) => routes[keyNode(i)].callback = calls[i].callback
  /\ \A pair \in TrailingSlashPairs : \A method \in { GET, POST } :
       route(routes, method, pair[1]) = route(routes, method, pair[2])
  /\ \A r \in Requests : \A pair \in TrailingSlashPairs :
       (routedNow(r) /\ req[r].pc # "threw"
        /\ (req[r].pathname = pair[1] \/ req[r].pathname = pair[2]))
       => /\ req[r].current = route(routes, req[r].method, pair[1]).current
          /\ req[r].routeParams = route(routes, req[r].method, pair[1]).routeParams

\* '/a/' and then 'a' were registered, '//a' was not the same key, and the
\* request for '/a/' invoked the handler of the second call
C21_Witness ==
  /\ Len(calls) = 2 /\ succeeded = { 1, 2 }
  /\ calls[1].pathname = path_a_slashes /\ calls[2].pathname = path_a
  /\ calls[1].method = GET /\ calls[2].method = GET
  /\ \E r \in Requests :
       /\ req[r].pathname = url_a_slash /\ req[r].method = GET
       /\ req[r].invoked = << calls[2].callback >>

\* the trie node of the route key of the addRoute call made in this step
newKeyNode ==
  <<calls'[Len(calls')].method>> \o split(strippedOnce(calls'[Len(calls')].pathname))

\* this step is a successful addRoute call for a route key that an earlier
\* successful call registered
registeredAgain ==
  /\ Len(calls') = Len(calls) + 1
  /\ calls'[Len(calls')].threw = "none"
  /\ \E j \in succeeded : keyNode(j) = newKeyNode

\* the handler of request r is the newest one registered for the node on
\* which its routing ended
newestInvoked(r) ==
  (routedNow(r) /\ req[r].invoked # <<>>)
  => \E i \in 1..Len(calls) :
       /\ lastOfKey(i) /\ keyNode(i) = req[r].current
       /\ req[r].invoked = << calls[i].callback >>

segmentsMatch(i, pathname) ==
  LET pattern == split(strippedOnce(calls[i].pathname))
      segments == split(strippedOnce(pathname))
      n == Len(pattern)
      greedy == Len(pattern[n]) >= 2 /\ pattern[n][1] = ":" /\ pattern[n][2] = ":"
  IN /\ IF greedy THEN Len(segments) >= n - 1 ELSE Len(segments) = n
     /\ \A k \in 1..(IF greedy THEN n - 1 ELSE n) :
          \/ Len(pattern[k]) >= 1 /\ pattern[k][1] = ":"
          \/ pattern[k] = segments[k]

\* no route registered for the method of request r matches its path
noRouteFor(r) ==
  \A i \in succeeded :
    calls[i].method = req[r].method => ~segmentsMatch(i, req[r].pathname)

\* C23: a request that no registered route matches (unregistered path or
\* method, unsupported method, too many segments) is answered by the
\* not-found default, 404 with the plain-text body 'Not found.', and no
\* route handler is invoked
C23_NoRouteIsNotFound ==
  \A r \in Requests : (routedNow(r) /\ noRouteFor(r)) => notFoundOutcome(r)

\* the methods addRoute accepts
Supported ==
  { <<"G", "E", "T">>, <<"P", "O", "S", "T">>, <<"P", "U", "T">>,
    <<"D", "E", "L", "E", "T", "E">>, <<"P", "A", "T", "C", "H">> }

\* C29: an addRoute call with a method outside GET, POST, PUT, DELETE and
\* PATCH throws and leaves the trie as it was; the trie has no node of
\* another method, and no handler is invoked for a request with one
C29_UnsupportedMethodRejected ==
  /\ [](\A i \in 1..Len(calls) :
          calls[i].method \notin Supported => calls[i].threw # "none")
  /\ [](\A p \in DOMAIN routes : p # <<>> => p[1] \in Supported)
  /\ [](\A r \in Requests :
          (req[r].pc # "idle" /\ req[r].method \notin Supported)
          => (req[r].invoked = <<>> /\ req[r].pc # "body"))
  /\ [][(Len(calls') = Len(calls) + 1
          /\ calls'[Len(calls')].method \notin Supported) => routes' = routes]_vars

\* addRoute('TRACE', 'a') has thrown, and a TRACE request for '/a', which
\* is registered for GET, was answered by the not-found default
C29_Witness ==
  /\ Len(calls) = 2
  /\ calls[1].method = GET /\ calls[1].pathname = path_a /\ calls[1].threw = "none"
  /\ calls[2].method = TRACE /\ calls[2].pathname = path_a
  /\ calls[2].threw # "none"
  /\ \E r \in Requests :
       /\ req[r].method = TRACE /\ req[r].pathname = url_a
       /\ notFoundOutcome(r)

\* the built-in message of each status that has a default
builtinMessage(key) ==
  CASE key = "notFound" -> <<"Not found.">>
    [] key = "badRequest" -> <<"Bad request.">>
    [] key = "internalServerError" -> <<"Internal server error.">>

\* the status of each sender that has a default
builtinStatus(key) ==
  CASE key = "notFound" -> 404 [] key = "badRequest" -> 400
    [] key = "internalServerError" -> 500

\* request r was handed to a handler that calls response[key]().doDefault()
\* while the default of key was the built-in one
builtinDefaulted(r, key) ==
  /\ req[r].invoked = << defaultCallback(key) >>
  /\ defaults[key] = BuiltinDefault

\* C24: with no custom default, doDefault() on notFound(), badRequest() and
\* internalServerError() sends a plain-text response with the status of the
\* sender and the built-in message of that status
C24_BuiltinDefaults ==
  \A r \in Requests :
    \A key \in { "notFound", "badRequest", "internalServerError" } :
      builtinDefaulted(r, key)
      => req[r].sent = << [status |-> builtinStatus(key), mimeType |-> "text/plain",
                           body |-> builtinMessage(key), candidate |-> -1] >>

\* request r is handed in this step to a handler that calls
\* response[key]().doDefault()
doDefaultCalled(r, key) ==
  /\ req[r].pc = "idle"
  /\ req'[r].invoked = << defaultCallback(key) >>

\* C25: doDefault() on ok() and on fromStatus(code), which have no default,
\* throws and writes nothing to the response; doDefault() on a sender with
\* a default invokes that default, once
C25_DoDefaultNeedsDefault ==
  [][\A r \in Requests :
       /\ \A key \in { "ok", "fromStatus" } :
            doDefaultCalled(r, key)
            => /\ req'[r].pc = "threw" /\ crashed'
               /\ req'[r].sent = <<>> /\ req'[r].defaulted = <<>>
       /\ \A key \in { "notFound", "badRequest", "internalServerError" } :
            doDefaultCalled(r, key) => req'[r].defaulted = << key >>]_vars

\* a handler called response.fromStatus(418).doDefault(): it threw, and
\* nothing was written
C25_Witness ==
  \E r \in Requests :
    /\ req[r].invoked = << defaultCallback("fromStatus") >>
    /\ req[r].pc = "threw" /\ req[r].sent = <<>> /\ req[r].defaulted = <<>>

\* nothing is found at filePath, or it is a directory without index.html
notFoundAt(filePath) ==
  \/ kindOf(filePath) = "absent"
  \/ kindOf(filePath) = "directory" /\ kindOf(pathJoin(filePath, INDEX_HTML)) = "absent"

\* request r waits for a file system call on the file its handler named
waitsForFile(r, filePath) ==
  /\ req[r].pc \in { "lstat", "readFile", "send" }
  /\ req[r].filePath \in { filePath, pathJoin(filePath, INDEX_HTML) }

\* C30: response.<status>().file(path, nextCallback) for a file that is not
\* found invokes nextCallback, once, and writes no response; without a
\* nextCallback it invokes the not-found default, and no nextCallback
C30_FileNotFoundFallsBack ==
  \A r \in Requests : \A callback \in SenderCallbacks :
    ( /\ callback.kind = "sendFile" /\ req[r].invoked = << callback >>
      /\ notFoundAt(callback.filePath) )
    => IF callback.nextCallback
       THEN /\ req[r].sent = <<>> /\ req[r].defaulted = <<>>
            /\ \/ req[r].nexts = 0 /\ waitsForFile(r, callback.filePath)
               \/ req[r].nexts = 1 /\ req[r].pc = "next"
       ELSE /\ req[r].nexts = 0
            /\ \/ /\ req[r].defaulted = <<>> /\ req[r].sent = <<>>
                  /\ waitsForFile(r, callback.filePath)
               \/ req[r].defaulted # <<>> /\ req[r].defaulted[1] = "notFound"

\* a handler called response.ok().file('samples/1/1.txt', next) for a file
\* that does not exist: next was invoked once and nothing was written
C30_Witness ==
  \E r \in Requests :
    /\ req[r].invoked = << fileCallback("ok", pathJoin(samples1, ONE_TXT), TRUE) >>
    /\ kindOf(pathJoin(samples1, ONE_TXT)) = "absent"
    /\ req[r].pc = "next" /\ req[r].nexts = 1 /\ req[r].sent = <<>>

\* the response of request r was written by serveFile from a file read for a
\* sender whose status is not 200
bufferedFileSent(r) ==
  /\ req[r].frame = "serveFile" /\ req[r].statusCode # 200
  /\ req[r].pc = "done" /\ req[r].sent # <<>>
  /\ kindOf(req[r].filePath) = "file"

\* the not-found default of a file is invoked for request r in this step
notFoundFileInvoked(r) ==
  /\ defaults.notFound.kind = "file"
  /\ req'[r].defaulted = Append(req[r].defaulted, "notFound")

\* serveFile never streams for a sender whose status is not 200
neverStreamed ==
  \A r \in Requests :
    ~(req[r].frame = "serveFile" /\ req[r].statusCode # 200 /\ req[r].pc = "send")

\* every invocation of the not-found default of a file starts serveFile on
\* that file with status 404
notFoundFileServed ==
  \A r \in Requests :
    notFoundFileInvoked(r)
    => /\ req'[r].pc = "lstat" /\ req'[r].frame = "serveFile"
       /\ req'[r].filePath = defaults.notFound.input /\ req'[r].statusCode = 404

staticFileServed(r) ==
  /\ req[r].frame = "servePath" /\ req[r].pc = "done"
  /\ req[r].sent # <<>> /\ req[r].sent[Len(req[r].sent)].status = 200
  /\ req[r].log # <<>>

\* the file of request r was read whole and passed through the injection,
\* not streamed
injectionPath(r) == req[r].log[Len(req[r].log)].op = "readFile"

\* the extensions of the files of the model that are injectable: none,
\* .html, .htm, .xhtml and .php, in any case
InjectableAsWritten ==
  { <<>>, <<".", "h", "t", "m", "l">>, <<".", "h", "t", "m">>,
    <<".", "x", "h", "t", "m", "l">>, <<".", "p", "h", "p">>,
    <<".", "H", "T", "M">> }

\* C27: a static file goes through the injection path exactly when its
\* resolved extension is injectable, in any case, and live reload is
\* enabled; in every other case its bytes are served unmodified
C27_InjectionPathIffInjectable ==
  \A r \in Requests :
    staticFileServed(r)
    => /\ injectionPath(r)
            <=> (shouldListen /\ extname(req[r].filePath) \in InjectableAsWritten)
       /\ ~injectionPath(r)
            => req[r].sent[Len(req[r].sent)].body = fileContent(req[r].filePath)

\* samples/1/P.HTM was served through the injection path
C27_Witness ==
  \E r \in Requests :
    /\ staticFileServed(r) /\ injectionPath(r)
    /\ req[r].filePath = pathJoin(samples1, P_HTM)

\* html with the reload script inserted before the first closing body tag,
\* in any case, and nothing else changed
scriptInserted(html) ==
  LET i == bodyEndIndex(html)
  IN IF i = 0 THEN html
     ELSE SubSeq(html, 1, i - 1) \o INJECTED_CODE \o SubSeq(html, i, Len(html))

\* C28: on the injection path the body is the content of the file with the
\* reload script inserted once, before the first closing body tag in any
\* case, every other character unchanged, the tag as written included; a
\* file without the tag is served unmodified
C28_ScriptInsertedBeforeBodyEnd ==
  \A r \in Requests :
    (staticFileServed(r) /\ injectionPath(r))
    => req[r].sent[Len(req[r].sent)].body = scriptInserted(fileContent(req[r].filePath))

\* this step is an addRoute call that throws
addRouteFailed ==
  /\ Len(calls') = Len(calls) + 1
  /\ calls'[Len(calls')].threw # "none"

\* C31: an addRoute call that fails with an error leaves the route trie
\* exactly as it was before the call, no node added
C31_FailedAddRouteLeavesTrie ==
  [][addRouteFailed => routes' = routes]_vars

\* the name of the variable of a ':name' or '::name' segment of a route
variableName(piece) ==
  IF Len(piece) >= 2 /\ piece[2] = ":" THEN SubSeq(piece, 3, Len(piece))
  ELSE SubSeq(piece, 2, Len(piece))

\* the variables named in the route that ends at a node of the trie
variablesOf(node) ==
  { variableName(node[k]) :
      k \in { j \in 2..Len(node) : Len(node[j]) >= 1 /\ node[j][1] = ":" } }

\* C32: whenever the handler of a route with ':name' or '::name' segments is
\* invoked, request.routeParams holds a value for every variable named in
\* the route, also for a request segment whose text is ':name' or '::name'
C32_RouteParamsComplete ==
  \A r \in Requests :
    (req[r].invoked # <<>> /\ req[r].current # Null)
    => variablesOf(req[r].current) \subseteq DOMAIN req[r].routeParams

\* this step delivers a change event of a watcher
changeDelivered == Len(changes') = Len(changes) + 1

\* C33: a change event delivered at any time after its watch was set up,
\* also between the construction of the server and listen(), is handled
\* without failure, and with no connection it sends nothing
C33_ChangeAlwaysHandled ==
  [][changeDelivered
       => /\ ~crashed'
          /\ broadcastSet = {} => ws' = ws]_vars

\* how often the dispatcher invoked a route handler or the not-found default
\* for request r
dispatched(r) ==
  Len(req[r].invoked)
    + Len(SelectSeq(req[r].defaulted, LAMBDA key : key = "notFound"))

\* C34: for each request that enters the dispatcher exactly one of these
\* happens, once: the matched route handler is invoked (for POST and PUT
\* after the end of the body), or the not-found default is invoked; never
\* both and never a handler twice
C34_HandlerOrNotFoundOnce ==
  \A r \in Requests :
    req[r].pc # "idle"
    => /\ dispatched(r) <= 1
       /\ req[r].pc # "body" => dispatched(r) = 1

RECURSIVE runAlone(_)
\* the record of a request after all its file system callbacks have run,
\* one after the other, with no other request in between
runAlone(q) ==
  IF q.pc = "lstat" THEN runAlone(lstatCallback(q))
  ELSE IF q.pc = "readFile" THEN runAlone(readFileCallback(q))
  ELSE IF q.pc = "send" THEN runAlone(sendEvent(q))
  ELSE q

\* request r waits for no callback any more
settled(r) == req[r].pc \notin { "idle", "lstat", "readFile", "send" }

\* the file system call request r waits for reports that nothing is found
ownNotFound(r) ==
  \/ req[r].pc = "lstat" /\ lstat(req[r].filePath).err = "ENOENT"
  \/ req[r].pc = "readFile" /\ readFile(req[r].filePath).err = "ENOENT"
  \/ /\ req[r].pc = "send" /\ send(req[r].filePath).event = "error"
     /\ send(req[r].filePath).status = 404

\* every request ends as it would have ended alone: same candidate, same
\* responses
sameAsAlone ==
  \A r \in Requests :
    settled(r)
    => LET alone == runAlone(serve(req[r].method, req[r].pathname, <<>>))
       IN req[r].sent = alone.sent /\ req[r].index = alone.index

\* a request starts at the first candidate
startsAtFirst ==
  \A r \in Requests :
    (req[r].pc = "idle" /\ req'[r].pc # "idle") => req'[r].index = 0

\* the position of a request advances by one, in a step of its own that
\* leaves the other requests as they are, and only on a not-found result
advancesOnOwnNotFound ==
  \A r \in Requests :
    (req[r].pc # "idle" /\ req'[r].index # req[r].index)
    => /\ req'[r].index = req[r].index + 1
       /\ \A other \in Requests \ { r } : req'[other] = req[other]
       /\ ownNotFound(r)

\* C35: the fallback resolutions of interleaved requests are independent:
\* each request starts at the first candidate and advances its own position
\* only on its own not-found results, and the candidate that serves it is
\* the one that would have served it alone, under every interleaving
C35_InterleavedRequestsIndependent ==
  /\ [](sameAsAlone)
  /\ [][startsAtFirst /\ advancesOnOwnNotFound]_vars

RECURSIVE runIn(_, _)
\* the record of a request after all its file system callbacks have run on
\* a server whose shouldListen is listen
runIn(q, listen) ==
  IF q.pc = "lstat" THEN runIn(lstatCallbackIn(q, listen), listen)
  ELSE IF q.pc = "readFile" THEN runIn(readFileCallback(q), listen)
  ELSE IF q.pc = "send" THEN runIn(sendEvent(q), listen)
  ELSE q

\* the status and the candidate directory of each response of a request
statusAndCandidate(q) ==
  [i \in 1..Len(q.sent) |-> << q.sent[i].status, q.sent[i].candidate >>]

\* the same request on the same file system, with live reload the other way
otherMode(r) ==
  runIn(serve(req[r].method, req[r].pathname, <<>>), ~shouldListen)

\* C36: for the same request and the same file system the candidate
\* directory that serves the file and the status of the response are the
\* same with live reload enabled and disabled; the bodies differ by the
\* injected reload script only
C36_LiveReloadChangesBodyOnly ==
  \A r \in Requests :
    (settled(r) /\ req[r].frame = "servePath")
    => /\ statusAndCandidate(req[r]) = statusAndCandidate(otherMode(r))
       /\ \A i \in 1..Len(req[r].sent) :
            \/ req[r].sent[i].body = otherMode(r).sent[i].body
            \/ req[r].sent[i].body = injectCode(otherMode(r).sent[i].body)
            \/ otherMode(r).sent[i].body = injectCode(req[r].sent[i].body)


====
